---- MODULE Spec2Model ----
(***************************************************************************)
(* Trade-decision and risk engine of justseven/futures-trading-rl.         *)
(*                                                                         *)
(* Part 1  risk gates: DailyDrawdownRisk, RiskManager.check and            *)
(*         SmartAutoTrading.check_risk_controls, all fed by one account.   *)
(* Part 2  scalp engine: HybridTrendScalpStrategy.on_1min_bar and          *)
(*         ScalpingOrderflowStrategy.on_bar with their pending orders.     *)
(* Part 3  order senders that track a position themselves: CTPEngine and   *)
(*         RLTradingStrategy.                                              *)
(* Part 4  position ledger: AccountManager, with exact rationals for the   *)
(*         floats.                                                         *)
(* Part 5  profitability evaluator of SmartAutoTrading.                    *)
(* Part 6  check_orderflow as a function of its inputs.                    *)
(* Part 7  contract catalog: get_contract_spec over symbols spelled out    *)
(*         character by character.                                         *)
(* Part 8  two threads applying fills to one AccountManager, one read or   *)
(*         write of a shared attribute per step.                           *)
(* Part 9  PredictiveTradingStrategy: execute_trading_logic with its       *)
(*         trailing stop, and its pending orders.                          *)
(* Part 10 two strategy instances, their own attributes and the            *)
(*         experience list of real_time_trade.py.                          *)
(*                                                                         *)
(* Each part has its own next-state relation; the variables of the other   *)
(* parts stay unchanged under it.                                          *)
(***************************************************************************)
EXTENDS Integers, Sequences, FiniteSets, Bags, TLC

VARIABLES
    \* ---- part 1: the account and the three gates
    today,               \* date.today(), counted in days
    balance,             \* account.balance as last reported by the broker
    available,           \* account.available as last reported by the broker
    current_day,         \* DailyDrawdownRisk.current_day
    day_start_balance,   \* DailyDrawdownRisk.day_start_balance: <<>> is None, <<b>> is b
    trading_enabled,     \* DailyDrawdownRisk.trading_enabled
    rm_trading_enabled,  \* RiskManager.trading_enabled (ModelCtaStrategy.risk)
    rm_obs_day,          \* history: the day of the last RiskManager.check, <<>> before the first
    sm_trading_enabled,  \* SmartAutoTrading.risk_manager.trading_enabled
    current_position,    \* SmartAutoTrading.current_position
    daily_pnl,           \* SmartAutoTrading.daily_pnl
    gate_last,           \* history: the last gate operation, its input and its result
    \* ---- part 2: one scalp strategy instance and its orders at the broker
    variant,             \* "hybrid" (HybridTrendScalpStrategy) or "scalping"
    take_profit_tick,    \* strategy parameter
    stop_loss_tick,      \* strategy parameter
    am_inited,           \* self.am.inited
    pos,                 \* self.pos, kept by CtaTemplate from the fills
    trade_count,         \* self.trade_count
    since_last_trade,    \* time.time() - self.last_trade_time, capped at cooldown_seconds
    entry_price,         \* self.entry_price
    last_tick,           \* self.last_tick: <<>> is None, <<t>> is the tick t
    tick_age,            \* time.time() - self.last_tick_time, capped above the window
    book_age,            \* history: time.time() - self.last_tick.datetime, the age of the
                         \* book itself, capped above the window
    trend_direction,     \* self.trend_direction (hybrid only)
    orders,              \* bag of the orders sent and not yet filled, cancelled or rejected
    emitted,             \* history: the intents the last step emitted
    held,                \* history: side of the last non-flat position, "none" again
                         \* once a bar that saw pos = 0 has sent an entry
    last,                \* history: the last step of part 2, the close of the bar or the
                         \* price of the entry fill it saw, and the day of the last bar
    \* ---- part 3: CTPEngine and RLTradingStrategy
    connected,           \* CTPEngine.connected
    ctp_position,        \* CTPEngine.position
    order_count,         \* CTPEngine.order_count
    active_orders,       \* CTPEngine.active_orders: order id -> request
    working,             \* ids of the CTPEngine orders the exchange still works
    rl_inited,           \* RLTradingStrategy.array_manager.inited
    rl_position,         \* RLTradingStrategy.position
    rl_working,          \* the RLTradingStrategy orders the exchange still works
    sender_last,         \* history: the last step of part 3
    \* ---- part 4: AccountManager, the position ledger (floats are exact rationals)
    account_id,          \* AccountManager.account_id
    initial_capital,     \* AccountManager.initial_capital
    acct_balance,        \* AccountManager.balance
    acct_available,      \* AccountManager.available
    acct_frozen,         \* AccountManager.frozen
    acct_margin,         \* AccountManager.margin
    acct_commission,     \* AccountManager.commission
    positions,           \* AccountManager.positions: key -> [volume, price]
    trade_records,       \* len(AccountManager.trade_records)
    file,                \* the file save_to_file writes and load_from_file reads
    opened,              \* history: per key, the opening fills since the entry was created
    cash_due,            \* history: initial capital, plus the amounts moved and the PnL realized, minus the commissions
    ledger_ops,          \* history: number of ledger calls made
    ledger_last,         \* history: the last ledger call and how it ended
    \* ---- part 5: the profitability evaluator of SmartAutoTrading
    contract_to_trade,   \* SmartAutoTrading.contract_to_trade
    contract_spec,       \* SmartAutoTrading.contract_spec
    current_capital,     \* SmartAutoTrading.current_capital
    eval_last,           \* history: the last evaluator call, its arguments and results
    \* ---- part 6: check_orderflow called on its own
    filter_last,         \* history: the last check_orderflow call, its inputs and its result
    \* ---- part 7: the contract catalog
    catalog_last,        \* history: the last get_contract_spec call, its symbol and its result
    \* ---- part 8: threads that apply fills to one AccountManager
    threads,             \* per thread: its fill, its position in the code and the value it has read
    \* ---- part 9: one PredictiveTradingStrategy and its orders at the broker
    predictive,          \* its attributes, the orders it has pending and, as history,
                         \* the intents its last step emitted
    \* ---- part 10: two strategy instances of one class
    instances,           \* per instance: its class and the attributes bound on the object
    experience_buffer,   \* the list experience_buffer of module real_time_trade
    instance_last        \* history: the last step of part 10 and the instance that took it

gate_vars == <<today, balance, available, current_day, day_start_balance,
               trading_enabled, rm_trading_enabled, rm_obs_day,
               sm_trading_enabled, current_position, daily_pnl, gate_last>>

scalp_vars == <<variant, take_profit_tick, stop_loss_tick, am_inited, pos,
                trade_count, since_last_trade, entry_price, last_tick, tick_age,
                book_age, trend_direction, orders, emitted, held, last>>

sender_vars == <<connected, ctp_position, order_count, active_orders, working,
                 rl_inited, rl_position, rl_working, sender_last>>

ledger_vars == <<account_id, initial_capital, acct_balance, acct_available,
                 acct_frozen, acct_margin, acct_commission, positions,
                 trade_records, file, opened, cash_due, ledger_ops,
                 ledger_last>>

eval_vars == <<contract_to_trade, contract_spec, current_capital, eval_last>>

instance_vars == <<instances, experience_buffer, instance_last>>

vars == <<gate_vars, scalp_vars, sender_vars, ledger_vars, eval_vars,
          filter_last, catalog_last, threads, predictive, instance_vars>>

----------------------------------------------------------------------------
(* Bounds of the model *)

\* number of day rollovers explored
MaxDay == 2

\* balances the broker reports, around the spec's example (100000, limit 5000)
Balances == {90000, 94000, 95000, 99000, 100000}

\* margin in use (balance - available) the broker reports
FrozenAmounts == {0, 5000, 6000}

\* strategy.pos values handed to RiskManager.check
CheckedPositions == {-1, 0, 1}

\* orders that may be pending at the broker at once
MaxPending == 2

\* bar close prices and fill prices
Prices == {97, 100, 102}

\* the daily trade cap explored (the class attribute defaults to 50)
max_trades_per_day == 3

\* the cooldown explored, in seconds (the class attribute defaults to 10)
cooldown_seconds == 2

\* orders a CTPEngine sends in one run
MaxOrderCount == 3

\* volumes handed to open_long / open_short
SenderVolumes == {1, 2}

\* prices handed to open_long / open_short / close_position
SenderPrices == {100}

\* ledger calls made in one run
MaxLedgerOps == 4

\* symbols, fill volumes, fill prices, commissions and cash movements the
\* ledger is driven with
LedgerSymbols == {"rb2605"}
LedgerVolumes == {0, 2, 3}
LedgerPrices == {4000, 4010}
LedgerCommissions == {0, 3}
LedgerAmounts == {-500, 500}

\* entry prices and volumes the evaluator is asked about
EvalPrices == {1000, 4000}
EvalVolumes == {1, 2}

----------------------------------------------------------------------------
(* Part 1: risk gates *)

\* RiskManager.__init__ defaults; DailyDrawdownRisk takes the same limit
max_pos == 1
max_daily_loss == 5000

\* SmartAutoTrading builds RiskManager(max_pos=5, max_daily_loss=10000)
sm_max_pos == 5
sm_max_daily_loss == 10000

Abs(x) == IF x < 0 THEN -x ELSE x

GateInit ==
    /\ today = 0
    /\ balance \in Balances
    /\ available = balance
    /\ current_day = 0
    /\ day_start_balance = <<>>
    /\ trading_enabled = TRUE
    /\ rm_trading_enabled = TRUE
    /\ rm_obs_day = <<>>
    /\ sm_trading_enabled = TRUE
    /\ current_position = 0
    /\ daily_pnl = 0
    /\ gate_last = [op |-> "init", pos |-> 0, ret |-> TRUE, first |-> FALSE]

\* the calendar day changes (date.today() returns the next day from now on)
NewDay ==
    /\ today < MaxDay
    /\ today' = today + 1
    /\ gate_last' = [op |-> "day", pos |-> 0, ret |-> TRUE, first |-> FALSE]
    /\ UNCHANGED <<balance, available, current_day, day_start_balance,
                   trading_enabled, rm_trading_enabled, rm_obs_day,
                   sm_trading_enabled, current_position, daily_pnl, scalp_vars,
                   sender_vars, ledger_vars, eval_vars,
                   filter_last, catalog_last, threads, predictive, instance_vars>>

\* the broker reports a new account state
AccountReport(b, f) ==
    /\ f <= b
    /\ <<b, b - f>> # <<balance, available>>
    /\ balance' = b
    /\ available' = b - f
    /\ gate_last' = [op |-> "account", pos |-> 0, ret |-> TRUE, first |-> FALSE]
    /\ UNCHANGED <<today, current_day, day_start_balance, trading_enabled,
                   rm_trading_enabled, rm_obs_day,
                   sm_trading_enabled, current_position, daily_pnl, scalp_vars,
                   sender_vars, ledger_vars, eval_vars,
                   filter_last, catalog_last, threads, predictive, instance_vars>>

\* the drawdown test of update_account: "if drawdown >= self.max_daily_loss"
DrawdownTrips(drawdown) == drawdown >= max_daily_loss

\* mutant of AfterDrawdownCheck: the flag follows the current drawdown, so a
\* recovered balance re-arms the gate
AfterDrawdownCheck_Follows(enabled, trips) == ~trips

\* "if drawdown >= self.max_daily_loss: self.trading_enabled = False":
\* the flag after the drawdown test, from the flag before it
AfterDrawdownCheck(enabled, trips) == IF trips THEN FALSE ELSE enabled

\* DailyDrawdownRisk.allow_trade
allow_trade == trading_enabled

\* a caller that holds position p asks DailyDrawdownRisk.allow_trade(), which
\* takes no argument
AllowTrade(p) ==
    /\ gate_last' = [op |-> "allow_trade", pos |-> p, ret |-> allow_trade,
                     first |-> FALSE]
    /\ UNCHANGED <<today, balance, available, current_day, day_start_balance,
                   trading_enabled, rm_trading_enabled, rm_obs_day,
                   sm_trading_enabled, current_position, daily_pnl, scalp_vars,
                   sender_vars, ledger_vars, eval_vars,
                   filter_last, catalog_last, threads, predictive, instance_vars>>

\* DailyDrawdownRisk.update_account(account)
UpdateAccount ==
    LET rolled   == today # current_day
        start1   == IF rolled THEN <<balance>> ELSE day_start_balance
        enabled1 == IF rolled THEN TRUE ELSE trading_enabled
        first    == start1 = <<>>
        drawdown == start1[1] - balance
    IN  /\ current_day' = today
        /\ day_start_balance' = IF first THEN <<balance>> ELSE start1
        /\ trading_enabled' =
               IF first THEN enabled1
               ELSE AfterDrawdownCheck(enabled1, DrawdownTrips(drawdown))
        /\ gate_last' = [op |-> "update_account", pos |-> 0,
                         ret |-> trading_enabled', first |-> rolled \/ first]
        /\ UNCHANGED <<today, balance, available, rm_trading_enabled, rm_obs_day,
                       sm_trading_enabled, current_position, daily_pnl, scalp_vars,
                   sender_vars, ledger_vars, eval_vars,
                   filter_last, catalog_last, threads, predictive, instance_vars>>

\* the third test of RiskManager.check:
\* "account.balance - account.available > self.max_daily_loss"
MarginTrips(bal, avail) == bal - avail > max_daily_loss

\* RiskManager.check(strategy), strategy.pos = p, the account as last reported
Check(p) ==
    LET blocked == ~rm_trading_enabled \/ Abs(p) >= max_pos
        trips   == ~blocked /\ MarginTrips(balance, available)
    IN  /\ rm_trading_enabled' = IF trips THEN FALSE ELSE rm_trading_enabled
        /\ rm_obs_day' = <<today>>
        /\ gate_last' = [op |-> "check", pos |-> p, ret |-> ~blocked /\ ~trips,
                         first |-> rm_obs_day # <<today>>]
        /\ UNCHANGED <<today, balance, available, current_day, day_start_balance,
                       trading_enabled, sm_trading_enabled,
                       current_position, daily_pnl, scalp_vars, sender_vars, ledger_vars, eval_vars,
                   filter_last, catalog_last, threads, predictive, instance_vars>>

\* SmartAutoTrading.check_risk_controls; current_position and daily_pnl are
\* assigned 0 in __init__ and nowhere else
CheckRiskControls ==
    LET blocked == ~sm_trading_enabled \/ Abs(current_position) >= sm_max_pos
        trips   == ~blocked /\ daily_pnl < -sm_max_daily_loss
    IN  /\ sm_trading_enabled' = IF trips THEN FALSE ELSE sm_trading_enabled
        /\ gate_last' = [op |-> "check_risk_controls", pos |-> current_position,
                         ret |-> ~blocked /\ ~trips, first |-> FALSE]
        /\ UNCHANGED <<today, balance, available, current_day, day_start_balance,
                       trading_enabled, rm_trading_enabled, rm_obs_day,
                       current_position, daily_pnl, scalp_vars, sender_vars, ledger_vars, eval_vars,
                   filter_last, catalog_last, threads, predictive, instance_vars>>

GateNext ==
    \/ NewDay
    \/ \E b \in Balances, f \in FrozenAmounts : AccountReport(b, f)
    \/ UpdateAccount
    \/ \E p \in CheckedPositions : AllowTrade(p)
    \/ \E p \in CheckedPositions : Check(p)
    \/ CheckRiskControls

----------------------------------------------------------------------------
(* Part 2: the scalp engine *)

\* class attributes of both strategies
fixed_size == 1
max_spread_tick == 2
\* order_imbalance_ratio = 1.5, kept exact as the fraction 3/2
order_imbalance_num == 3
order_imbalance_den == 2
\* the literal of "time.time() - self.last_tick_time > 2"
FreshnessWindow == 2
\* contract.pricetick of the traded contract (rb2605)
pricetick == 1
\* the parameter defaults
TakeProfitDefault == 2
StopLossDefault == 3

Variants == {"hybrid", "scalping"}

\* tick distances explored: the defaults, and zero distances
TickConfigs == {<<TakeProfitDefault, StopLossDefault>>, <<0, 0>>}

\* best bid/ask snapshots a tick may carry
Tick(bid, ask, bid_volume, ask_volume) ==
    [bid_price_1 |-> bid, ask_price_1 |-> ask,
     bid_volume_1 |-> bid_volume, ask_volume_1 |-> ask_volume]
Ticks == {Tick(100, 101, 3, 2), Tick(100, 101, 2, 3), Tick(98, 101, 3, 2)}

Min(a, b) == IF a < b THEN a ELSE b

\* an order intent: buy/short open a position, sell/cover close one
\* (why is the branch that sent it, ema the EMA sign that branch read)
Intent(kind, price, volume, why, ema) ==
    [kind |-> kind, price |-> price, volume |-> volume, why |-> why, ema |-> ema]

IsOpen(o) == o.kind \in {"buy", "short"}
IsClose(o) == o.kind \in {"sell", "cover"}

ScalpInit ==
    /\ variant \in Variants
    /\ \E c \in TickConfigs : take_profit_tick = c[1] /\ stop_loss_tick = c[2]
    /\ am_inited = FALSE
    /\ pos = 0
    /\ trade_count = 0
    /\ since_last_trade = cooldown_seconds
    /\ entry_price = 0
    /\ last_tick = <<>>
    /\ tick_age = FreshnessWindow + 1
    /\ book_age = FreshnessWindow + 1
    /\ trend_direction = 0
    /\ orders = EmptyBag
    /\ emitted = <<>>
    /\ held = "none"
    /\ last = [op |-> "init", price |-> 0, bar_day |-> <<>>]

\* check_orderflow without its spread test
CheckOrderflow_NoSpread(t, age, direction) ==
    IF t = <<>> THEN FALSE
    ELSE LET tick == t[1] IN
        IF direction = "long"
           /\ tick.bid_volume_1 * order_imbalance_den
                < tick.ask_volume_1 * order_imbalance_num
        THEN FALSE
        ELSE IF direction # "long"
                /\ tick.ask_volume_1 * order_imbalance_den
                     < tick.bid_volume_1 * order_imbalance_num
        THEN FALSE
        ELSE age <= FreshnessWindow

\* check_orderflow with the test of the long side applied to every direction
CheckOrderflow_LongSideOnly(t, age, direction) ==
    IF t = <<>> THEN FALSE
    ELSE LET tick == t[1] IN
        /\ tick.ask_price_1 - tick.bid_price_1 <= max_spread_tick * pricetick
        /\ tick.bid_volume_1 * order_imbalance_den
              >= tick.ask_volume_1 * order_imbalance_num
        /\ age <= FreshnessWindow

\* check_orderflow(direction) on the tick t seen age seconds ago
CheckOrderflow(t, age, direction) ==
    IF t = <<>> THEN FALSE
    ELSE LET tick == t[1] IN
        IF tick.ask_price_1 - tick.bid_price_1 > max_spread_tick * pricetick
        THEN FALSE
        ELSE IF direction = "long"
                /\ tick.bid_volume_1 * order_imbalance_den
                     < tick.ask_volume_1 * order_imbalance_num
        THEN FALSE
        ELSE IF direction # "long"
                /\ tick.ask_volume_1 * order_imbalance_den
                     < tick.bid_volume_1 * order_imbalance_num
        THEN FALSE
        ELSE IF age > FreshnessWindow
        THEN FALSE
        ELSE TRUE

check_orderflow(direction) == CheckOrderflow(last_tick, tick_age, direction)

\* the trend part of the entry condition: the hybrid strategy asks for the AI
\* direction and the EMA order, the scalping strategy for the EMA order alone
\* (ema is the sign of ema_fast - ema_slow)
TrendLong(ema) ==
    IF variant = "hybrid" THEN trend_direction = 1 /\ ema > 0 ELSE ema > 0
TrendShort(ema) ==
    IF variant = "hybrid" THEN trend_direction = -1 /\ ema < 0 ELSE ema < 0

\* mutant of InCooldown: the cooldown ends one second early
InCooldown_Short == since_last_trade < cooldown_seconds - 1

\* mutant of TradeCapReached: the cap test lets one entry too many through
TradeCapReached_Late == trade_count > max_trades_per_day

\* the early returns of on_1min_bar / on_bar once the ArrayManager is ready
TradeCapReached == trade_count >= max_trades_per_day
InCooldown == since_last_trade < cooldown_seconds

\* the exit tests, in the order the code evaluates them
LongTakeProfit(price) == price >= entry_price + take_profit_tick * pricetick
LongStopLoss(price) == price <= entry_price - stop_loss_tick * pricetick
ShortTakeProfit(price) == price <= entry_price - take_profit_tick * pricetick
ShortStopLoss(price) == price >= entry_price + stop_loss_tick * pricetick

\* the intents one call of on_1min_bar / on_bar sends, in order
BarIntents(price, ema) ==
    IF TradeCapReached \/ InCooldown THEN <<>>
    ELSE IF pos = 0 THEN
        IF TrendLong(ema) /\ check_orderflow("long")
        THEN <<Intent("buy", price, fixed_size, "entry", ema)>>
        ELSE IF TrendShort(ema) /\ check_orderflow("short")
        THEN <<Intent("short", price, fixed_size, "entry", ema)>>
        ELSE <<>>
    ELSE IF pos > 0 THEN
        IF LongTakeProfit(price)
        THEN <<Intent("sell", price, Abs(pos), "take_profit", 0)>>
        ELSE IF LongStopLoss(price)
        THEN <<Intent("sell", price, Abs(pos), "stop_loss", 0)>>
        ELSE <<>>
    ELSE
        IF ShortTakeProfit(price)
        THEN <<Intent("cover", price, Abs(pos), "take_profit", 0)>>
        ELSE IF ShortStopLoss(price)
        THEN <<Intent("cover", price, Abs(pos), "stop_loss", 0)>>
        ELSE <<>>

\* what the broker holds of a sent intent
SentOrder(i) == [kind |-> i.kind, volume |-> i.volume]

Pending == BagCardinality(orders)

\* on_tick(tick): the book is stored and stamped with the time of the call,
\* delay seconds after tick.datetime, the time the exchange took the book;
\* the hybrid strategy also refreshes the AI trend once the ArrayManager is
\* ready (d is the direction it derives, or the old one when the prediction
\* is skipped or fails)
OnTick(t, d, delay) ==
    /\ last_tick' = <<t>>
    /\ tick_age' = 0
    /\ book_age' = Min(delay, FreshnessWindow + 1)
    /\ trend_direction' = d
    /\ emitted' = <<>>
    /\ last' = [op |-> "tick", price |-> 0, bar_day |-> last.bar_day]
    /\ UNCHANGED <<variant, take_profit_tick, stop_loss_tick, am_inited, pos,
                   trade_count, since_last_trade, entry_price, orders, held,
                   gate_vars, sender_vars, ledger_vars, eval_vars,
                   filter_last, catalog_last, threads, predictive, instance_vars>>

\* on_1min_bar(bar) / on_bar(bar): bar.close_price = price, ema the sign of
\* ema_fast - ema_slow, warm whether this bar completes the ArrayManager
OnBar(price, ema, warm) ==
    LET ready   == am_inited \/ warm
        intents == IF ready THEN BarIntents(price, ema) ELSE <<>>
        entered == intents # <<>> /\ IsOpen(intents[1])
    IN  /\ Pending < MaxPending
        /\ am_inited' = ready
        /\ orders' = IF intents = <<>> THEN orders
                     ELSE orders (+) SetToBag({SentOrder(intents[1])})
        /\ entry_price' = IF entered THEN price ELSE entry_price
        /\ since_last_trade' = IF entered THEN 0 ELSE since_last_trade
        /\ trade_count' = IF entered THEN trade_count + 1 ELSE trade_count
        /\ emitted' = intents
        /\ held' = IF entered THEN "none" ELSE held
        /\ last' = [op |-> "bar", price |-> price, bar_day |-> <<today>>]
        /\ UNCHANGED <<variant, take_profit_tick, stop_loss_tick, pos, last_tick,
                       tick_age, book_age, trend_direction, gate_vars, sender_vars, ledger_vars, eval_vars,
                   filter_last, catalog_last, threads, predictive, instance_vars>>

\* one second passes
Elapse ==
    /\ since_last_trade < cooldown_seconds \/ tick_age <= FreshnessWindow
    /\ since_last_trade' = Min(since_last_trade + 1, cooldown_seconds)
    /\ tick_age' = Min(tick_age + 1, FreshnessWindow + 1)
    /\ book_age' = Min(book_age + 1, FreshnessWindow + 1)
    /\ emitted' = <<>>
    /\ last' = [op |-> "elapse", price |-> 0, bar_day |-> last.bar_day]
    /\ UNCHANGED <<variant, take_profit_tick, stop_loss_tick, am_inited, pos,
                   trade_count, entry_price, last_tick, trend_direction, orders,
                   held, gate_vars, sender_vars, ledger_vars, eval_vars,
                   filter_last, catalog_last, threads, predictive, instance_vars>>

\* the position after a fill of order o: the CTA engine adds the volume of a
\* long trade to strategy.pos and subtracts that of a short trade
PosAfterFill(p, o) ==
    IF o.kind \in {"buy", "cover"} THEN p + o.volume ELSE p - o.volume

\* the broker can fill o: an opening order always, a closing order only
\* against a position of its size
Fillable(o) ==
    \/ IsOpen(o)
    \/ o.kind = "sell" /\ pos >= o.volume
    \/ o.kind = "cover" /\ -pos >= o.volume

\* the prices trade.price can take when o fills: a limit order fills at its
\* price or better. Of an order only kind and volume are kept, so an entry
\* order is bounded by the price of the latest entry, which is its own price
\* whenever it is the only entry pending; the price of an exit fill is not
\* kept in the history, and 0 stands for all of them
TradePrices(o) ==
    IF o.kind = "buy" THEN {p \in Prices : p <= entry_price}
    ELSE IF o.kind = "short" THEN {p \in Prices : p >= entry_price}
    ELSE {0}

\* on_trade(trade): the pending order o is filled at trade.price = fill_price;
\* the strategy itself only logs
OnTrade(o, fill_price) ==
    /\ Fillable(o)
    /\ fill_price \in TradePrices(o)
    /\ pos' = PosAfterFill(pos, o)
    /\ orders' = orders (-) SetToBag({o})
    /\ held' = IF pos' > 0 THEN "long" ELSE IF pos' < 0 THEN "short" ELSE held
    /\ emitted' = <<>>
    /\ last' = [op |-> "trade", price |-> fill_price, bar_day |-> last.bar_day]
    /\ UNCHANGED <<variant, take_profit_tick, stop_loss_tick, am_inited,
                   trade_count, since_last_trade, entry_price, last_tick,
                   tick_age, book_age, trend_direction, gate_vars, sender_vars, ledger_vars, eval_vars,
                   filter_last, catalog_last, threads, predictive, instance_vars>>

\* on_order(order): the pending order o is cancelled or rejected; the handler
\* is "pass"
OnOrder(o) ==
    /\ orders' = orders (-) SetToBag({o})
    /\ emitted' = <<>>
    /\ last' = [op |-> "order", price |-> 0, bar_day |-> last.bar_day]
    /\ UNCHANGED <<variant, take_profit_tick, stop_loss_tick, am_inited, pos,
                   trade_count, since_last_trade, entry_price, last_tick,
                   tick_age, book_age, trend_direction, held, gate_vars, sender_vars, ledger_vars, eval_vars,
                   filter_last, catalog_last, threads, predictive, instance_vars>>

\* what the AI step of on_tick can leave in trend_direction
TrendInputs ==
    IF variant = "hybrid" /\ am_inited THEN {-1, 0, 1} ELSE {trend_direction}

\* whether a bar completes the ArrayManager; once ready it stays ready
WarmInputs == IF am_inited THEN {TRUE} ELSE BOOLEAN

ScalpNext ==
    \/ \E t \in Ticks, d \in TrendInputs : OnTick(t, d, 0)
    \/ \E price \in Prices, ema \in {-1, 0, 1}, warm \in WarmInputs :
           OnBar(price, ema, warm)
    \/ Elapse
    \/ \E o \in BagToSet(orders) :
           OnTrade(o, IF IsOpen(o) THEN entry_price ELSE 0)
    \/ \E o \in BagToSet(orders) : OnOrder(o)

\* the scalp engine with entry orders that fill at any price they can, where
\* ScalpNext fills them at the price of the latest entry
FillNext ==
    \/ \E t \in Ticks, d \in TrendInputs : OnTick(t, d, 0)
    \/ \E price \in Prices, ema \in {-1, 0, 1}, warm \in WarmInputs :
           OnBar(price, ema, warm)
    \/ Elapse
    \/ \E o \in BagToSet(orders) : \E fill_price \in TradePrices(o) :
           OnTrade(o, fill_price)
    \/ \E o \in BagToSet(orders) : OnOrder(o)

\* seconds between the exchange taking a book and on_tick receiving it
TickDelays == {0, 1, 3}

\* the scalp engine with ticks that arrive late, where ScalpNext delivers them
\* at once
StaleNext ==
    \/ \E t \in Ticks, d \in TrendInputs, delay \in TickDelays :
           OnTick(t, d, delay)
    \/ \E price \in Prices, ema \in {-1, 0, 1}, warm \in WarmInputs :
           OnBar(price, ema, warm)
    \/ Elapse
    \/ \E o \in BagToSet(orders) :
           OnTrade(o, IF IsOpen(o) THEN entry_price ELSE 0)
    \/ \E o \in BagToSet(orders) : OnOrder(o)

----------------------------------------------------------------------------
(* Part 3: CTPEngine and RLTradingStrategy *)

SenderInit ==
    /\ connected = FALSE
    /\ ctp_position = 0
    /\ order_count = 0
    /\ active_orders = <<>>
    /\ working = {}
    /\ rl_inited = FALSE
    /\ rl_position = 0
    /\ rl_working = EmptyBag
    /\ sender_last = [op |-> "init", ret |-> FALSE]

OrderRequest(direction, offset, price, volume) ==
    [direction |-> direction, offset |-> offset, price |-> price, volume |-> volume]

\* CTPEngine.connect succeeds / CTPEngine.disconnect
Connect ==
    /\ connected' = TRUE
    /\ sender_last' = [op |-> "connect", ret |-> TRUE]
    /\ UNCHANGED <<ctp_position, order_count, active_orders, working,
                   rl_inited, rl_position, rl_working, gate_vars, scalp_vars, ledger_vars, eval_vars,
                   filter_last, catalog_last, threads, predictive, instance_vars>>

Disconnect ==
    /\ connected' = FALSE
    /\ sender_last' = [op |-> "disconnect", ret |-> TRUE]
    /\ UNCHANGED <<ctp_position, order_count, active_orders, working,
                   rl_inited, rl_position, rl_working, gate_vars, scalp_vars, ledger_vars, eval_vars,
                   filter_last, catalog_last, threads, predictive, instance_vars>>

\* CTPEngine.send_order returns an order id: the engine is connected and the
\* gateway hands one back (accepted)
SendReturnsId(accepted) == connected /\ accepted

\* the position open_long / open_short / close_position leave behind, from
\* the one before, the one a sent order stands for and whether it was sent
PositionAfterSend(before, target, sent) == IF sent THEN target ELSE before

\* CTPEngine.send_order as called by the three methods below: counts the
\* order, and stores the request under the id the gateway returned
SendOrder(req, accepted) ==
    /\ order_count' = IF connected THEN order_count + 1 ELSE order_count
    /\ active_orders' = IF SendReturnsId(accepted)
                        THEN Append(active_orders, req) ELSE active_orders
    /\ working' = IF SendReturnsId(accepted)
                  THEN working \cup {Len(active_orders) + 1} ELSE working

\* CTPEngine.open_long(price, volume)
OpenLong(price, volume, accepted) ==
    /\ order_count < MaxOrderCount
    /\ IF ctp_position # 0
       THEN /\ sender_last' = [op |-> "open_long", ret |-> FALSE]
            /\ UNCHANGED <<ctp_position, order_count, active_orders, working>>
       ELSE /\ SendOrder(OrderRequest("LONG", "OPEN", price, volume), accepted)
            /\ ctp_position' =
                   PositionAfterSend(ctp_position, volume, SendReturnsId(accepted))
            /\ sender_last' = [op |-> "open_long", ret |-> SendReturnsId(accepted)]
    /\ UNCHANGED <<connected, rl_inited, rl_position, rl_working,
                   gate_vars, scalp_vars, ledger_vars, eval_vars,
                   filter_last, catalog_last, threads, predictive, instance_vars>>

\* CTPEngine.open_short(price, volume)
OpenShort(price, volume, accepted) ==
    /\ order_count < MaxOrderCount
    /\ IF ctp_position # 0
       THEN /\ sender_last' = [op |-> "open_short", ret |-> FALSE]
            /\ UNCHANGED <<ctp_position, order_count, active_orders, working>>
       ELSE /\ SendOrder(OrderRequest("SHORT", "OPEN", price, volume), accepted)
            /\ ctp_position' =
                   PositionAfterSend(ctp_position, -volume, SendReturnsId(accepted))
            /\ sender_last' = [op |-> "open_short", ret |-> SendReturnsId(accepted)]
    /\ UNCHANGED <<connected, rl_inited, rl_position, rl_working,
                   gate_vars, scalp_vars, ledger_vars, eval_vars,
                   filter_last, catalog_last, threads, predictive, instance_vars>>

\* CTPEngine.close_position(price)
ClosePosition(price, accepted) ==
    /\ order_count < MaxOrderCount
    /\ IF ctp_position = 0
       THEN /\ sender_last' = [op |-> "close_position", ret |-> FALSE]
            /\ UNCHANGED <<ctp_position, order_count, active_orders, working>>
       ELSE /\ SendOrder(OrderRequest(IF ctp_position > 0 THEN "SHORT" ELSE "LONG",
                                      "CLOSE", price, Abs(ctp_position)), accepted)
            /\ ctp_position' =
                   PositionAfterSend(ctp_position, 0, SendReturnsId(accepted))
            /\ sender_last' = [op |-> "close_position", ret |-> SendReturnsId(accepted)]
    /\ UNCHANGED <<connected, rl_inited, rl_position, rl_working,
                   gate_vars, scalp_vars, ledger_vars, eval_vars,
                   filter_last, catalog_last, threads, predictive, instance_vars>>

\* the exchange fills, cancels or rejects the working order id; CTPEngine
\* registers no handler for either event
CtpAcknowledge(id, how) ==
    /\ id \in working
    /\ working' = working \ {id}
    /\ sender_last' = [op |-> how, ret |-> TRUE]
    /\ UNCHANGED <<connected, ctp_position, order_count, active_orders,
                   rl_inited, rl_position, rl_working, gate_vars, scalp_vars, ledger_vars, eval_vars,
                   filter_last, catalog_last, threads, predictive, instance_vars>>

\* the orders RLTradingStrategy.on_bar sends for the model's target position
RlOrders(target) ==
    IF target = rl_position THEN <<>>
    ELSE (IF rl_position # 0
          THEN <<OrderRequest(IF rl_position = 1 THEN "SHORT" ELSE "LONG",
                              "CLOSE", 0, Abs(rl_position))>>
          ELSE <<>>)
         \o
         (IF target # 0
          THEN <<OrderRequest(IF target = 1 THEN "LONG" ELSE "SHORT", "OPEN", 0, 1)>>
          ELSE <<>>)

RECURSIVE SeqToBag(_)
SeqToBag(seq) ==
    IF seq = <<>> THEN EmptyBag
    ELSE SetToBag({Head(seq)}) (+) SeqToBag(Tail(seq))

\* RLTradingStrategy.on_bar(bar): cancel_all, then the orders towards the
\* target position the model predicts (prices are left out of the requests)
RlOnBar(target, warm) ==
    LET ready == rl_inited \/ warm
        sent  == IF ready THEN RlOrders(target) ELSE <<>>
    IN  /\ rl_inited' = ready
        /\ rl_working' = SeqToBag(sent)
        /\ rl_position' = IF ready THEN target ELSE rl_position
        /\ sender_last' = [op |-> "rl_on_bar", ret |-> sent # <<>>]
        /\ UNCHANGED <<connected, ctp_position, order_count, active_orders,
                       working, gate_vars, scalp_vars, ledger_vars, eval_vars,
                   filter_last, catalog_last, threads, predictive, instance_vars>>

\* RLTradingStrategy.on_trade / on_order: the exchange fills or rejects a
\* working order; on_trade only logs and on_order is "pass"
RlAcknowledge(o, how) ==
    /\ rl_working' = rl_working (-) SetToBag({o})
    /\ sender_last' = [op |-> how, ret |-> TRUE]
    /\ UNCHANGED <<connected, ctp_position, order_count, active_orders,
                   working, rl_inited, rl_position, gate_vars, scalp_vars, ledger_vars, eval_vars,
                   filter_last, catalog_last, threads, predictive, instance_vars>>

Acknowledgments == {"fill", "cancel", "reject"}

RlWarmInputs == IF rl_inited THEN {TRUE} ELSE BOOLEAN

SenderNext ==
    \/ Connect
    \/ Disconnect
    \/ \E price \in SenderPrices, volume \in SenderVolumes, accepted \in BOOLEAN :
           OpenLong(price, volume, accepted)
    \/ \E price \in SenderPrices, volume \in SenderVolumes, accepted \in BOOLEAN :
           OpenShort(price, volume, accepted)
    \/ \E price \in SenderPrices, accepted \in BOOLEAN :
           ClosePosition(price, accepted)
    \/ \E id \in working, how \in Acknowledgments : CtpAcknowledge(id, how)
    \/ \E target \in {-1, 0, 1}, warm \in RlWarmInputs : RlOnBar(target, warm)
    \/ \E o \in BagToSet(rl_working), how \in Acknowledgments : RlAcknowledge(o, how)

----------------------------------------------------------------------------
(* Exact rationals for Python floats: [n |-> numerator, d |-> denominator]  *)

RECURSIVE Gcd(_, _)
Gcd(a, b) == IF b = 0 THEN a ELSE Gcd(b, a % b)

Frac(n, d) ==
    LET g == Gcd(Abs(n), Abs(d))
        sgn == IF d < 0 THEN -1 ELSE 1
    IN  [n |-> sgn * (n \div g), d |-> sgn * (d \div g)]

Num(i) == [n |-> i, d |-> 1]
FAdd(a, b) == Frac(a.n * b.d + b.n * a.d, a.d * b.d)
FNeg(a) == [n |-> -a.n, d |-> a.d]
FSub(a, b) == FAdd(a, FNeg(b))
FMul(a, b) == Frac(a.n * b.n, a.d * b.d)
FDiv(a, b) == Frac(a.n * b.d, a.d * b.n)
FLess(a, b) == a.n * b.d < b.n * a.d
FLeq(a, b) == a.n * b.d <= b.n * a.d

----------------------------------------------------------------------------
(* Part 4: AccountManager *)

\* PositionDirection.LONG / SHORT
PositionDirections == {"LONG", "SHORT"}

\* offset_flag: "开仓" opens, every other value closes
OffsetFlags == {"open", "close"}

\* position_key = f"{symbol}_{direction.value}"
PositionKey(symbol, direction) == <<symbol, direction>>

\* contract multiplier of the ledger's symbol (CONTRACT_SPECS rb2605 size)
LedgerLotSize == 10

\* margin ratio of the ledger's symbol, in percent (CONTRACT_SPECS rb2605
\* margin_ratio 0.09)
LedgerMarginPercent == 9

\* the margin rate update_position hard-codes (0.1)
LedgerMarginRate == Frac(1, 10)

LedgerInit ==
    /\ account_id = "test_account"
    /\ initial_capital = Num(100000)
    /\ acct_balance = initial_capital
    /\ acct_available = initial_capital
    /\ acct_frozen = Num(0)
    /\ acct_margin = Num(0)
    /\ acct_commission = Num(0)
    /\ positions = <<>>
    /\ trade_records = 0
    /\ file = [kind |-> "none", data |-> <<>>]
    /\ opened = <<>>
    /\ cash_due = initial_capital
    /\ ledger_ops = 0
    /\ ledger_last = [op |-> "init", ret |-> "ok", key |-> <<>>, volume |-> 0,
                      price |-> 0, closed |-> 0, value |-> Num(0)]

Position(volume, price) == [volume |-> volume, price |-> price, pnl |-> Num(0),
                            frozen |-> 0]

\* update_position, opening branch on an existing entry: the division by
\* total_volume raises ZeroDivisionError when both volumes are 0
OpenRaises(key, volume) ==
    key \in DOMAIN positions /\ positions[key].volume + volume = 0

\* mutant of AveragePrice: the plain mean of the old average and the fill
AveragePrice_Unweighted(old_pos, volume, price) ==
    FDiv(FAdd(old_pos.price, Num(price)), Num(2))

\* update_position, lines 137-139: total_cost / total_volume
AveragePrice(old_pos, volume, price) ==
    FDiv(FAdd(FMul(old_pos.price, Num(old_pos.volume)), FMul(Num(price), Num(volume))),
         Num(old_pos.volume + volume))

\* mutant of PositionsAfter: the price of the fill replaces the price of the
\* entry, on an opening fill and on a partial close
PositionsAfter_Repriced(key, volume, price, offset_flag) ==
    IF offset_flag = "open"
    THEN (key :> Position((IF key \in DOMAIN positions
                           THEN positions[key].volume ELSE 0) + volume,
                          Num(price))) @@ positions
    ELSE IF key \in DOMAIN positions /\ positions[key].volume > volume
         THEN [positions EXCEPT ![key].volume = @ - volume,
                                ![key].price = Num(price)]
         ELSE IF key \in DOMAIN positions /\ positions[key].volume = volume
         THEN [k \in DOMAIN positions \ {key} |-> positions[k]]
         ELSE positions

\* update_position, lines 132-157: the position map after the call
PositionsAfter(key, volume, price, offset_flag) ==
    IF offset_flag = "open"
    THEN IF key \in DOMAIN positions
         THEN LET old_pos      == positions[key]
                  total_volume == old_pos.volume + volume
                  avg_price    == AveragePrice(old_pos, volume, price)
              IN  [positions EXCEPT ![key] =
                       [old_pos EXCEPT !.volume = total_volume, !.price = avg_price]]
         ELSE (key :> Position(volume, Num(price))) @@ positions
    ELSE IF key \in DOMAIN positions /\ positions[key].volume >= volume
         THEN IF positions[key].volume - volume = 0
              THEN [k \in DOMAIN positions \ {key} |-> positions[k]]
              ELSE [positions EXCEPT ![key].volume = @ - volume]
         ELSE positions

\* update_position, lines 160-169: margin reserved or released by the call
MarginMoved(volume, price) ==
    FMul(FMul(Num(price), Num(volume)), LedgerMarginRate)

MarginAfter(margin, volume, price, offset_flag) ==
    IF offset_flag = "open"
    THEN FAdd(margin, MarginMoved(volume, price))
    ELSE FSub(margin, MarginMoved(volume, price))

\* history of the opening fills on a key: their volumes and costs summed
\* while the entry lives; a closing fill on the key ends the history
OpenedAfter(key, volume, price, offset_flag) ==
    LET live == [k \in (DOMAIN opened) \cap (DOMAIN PositionsAfter(key, volume, price, offset_flag))
                    |-> opened[k]]
    IN  IF offset_flag = "open"
        THEN IF key \in DOMAIN live
             THEN [live EXCEPT ![key] = [volume |-> @.volume + volume,
                                         cost |-> @.cost + price * volume]]
             ELSE IF key \in DOMAIN positions THEN live
             ELSE (key :> [volume |-> volume, cost |-> price * volume]) @@ live
        ELSE [k \in DOMAIN live \ {key} |-> live[k]]

\* the volume a closing call takes off the entry: all of it or nothing
ClosedVolume(key, volume, offset_flag) ==
    IF offset_flag # "open" /\ key \in DOMAIN positions
          /\ positions[key].volume >= volume
    THEN volume ELSE 0

\* history of the cash a closing call realizes:
\* (fill price - entry price) * sign(side) * lot size * closed volume
RealizedPnl(key, volume, price, offset_flag) ==
    IF ClosedVolume(key, volume, offset_flag) = 0 THEN Num(0)
    ELSE FMul(FSub(Num(price), positions[key].price),
              Num((IF key[2] = "LONG" THEN 1 ELSE -1) * LedgerLotSize
                  * ClosedVolume(key, volume, offset_flag)))

\* AccountManager.update_position(symbol, direction, volume, price, offset_flag)
UpdatePosition(symbol, direction, volume, price, offset_flag) ==
    LET key == PositionKey(symbol, direction) IN
    /\ ledger_ops < MaxLedgerOps
    /\ ledger_ops' = ledger_ops + 1
    /\ IF offset_flag = "open" /\ OpenRaises(key, volume)
       THEN /\ ledger_last' = [op |-> offset_flag, ret |-> "ZeroDivisionError",
                               key |-> key, volume |-> volume, price |-> price,
                               closed |-> 0, value |-> Num(0)]
            /\ UNCHANGED <<positions, acct_margin, acct_available, opened,
                           cash_due>>
       ELSE /\ positions' = PositionsAfter(key, volume, price, offset_flag)
            /\ acct_margin' = MarginAfter(acct_margin, volume, price, offset_flag)
            /\ acct_available' =
                   IF offset_flag = "open"
                   THEN FSub(acct_available, MarginMoved(volume, price))
                   ELSE FAdd(acct_available, MarginMoved(volume, price))
            /\ opened' = OpenedAfter(key, volume, price, offset_flag)
            /\ cash_due' = FAdd(cash_due, RealizedPnl(key, volume, price, offset_flag))
            /\ ledger_last' = [op |-> offset_flag, ret |-> "ok", key |-> key,
                               volume |-> volume, price |-> price,
                               closed |-> ClosedVolume(key, volume, offset_flag),
                               value |-> Num(0)]
    /\ UNCHANGED <<account_id, initial_capital, acct_balance, acct_frozen,
                   acct_commission, trade_records, file,
                   gate_vars, scalp_vars, sender_vars, eval_vars,
                   filter_last, catalog_last, threads, predictive, instance_vars>>

\* mutant of CommissionAfter: the trade's commission is taken off
CommissionAfter_Refund(total, commission) == FSub(total, Num(commission))

\* record_trade, line 185: the cumulative commission after a trade
CommissionAfter(total, commission) == FAdd(total, Num(commission))

\* AccountManager.record_trade(symbol, direction, volume, price, trade_time,
\* commission); of the record appended only its existence is kept
RecordTrade(commission) ==
    /\ ledger_ops < MaxLedgerOps
    /\ ledger_ops' = ledger_ops + 1
    /\ trade_records' = trade_records + 1
    /\ acct_commission' = CommissionAfter(acct_commission, commission)
    /\ acct_available' = FSub(acct_available, Num(commission))
    /\ cash_due' = FSub(cash_due, Num(commission))
    /\ ledger_last' = [op |-> "record_trade", ret |-> "ok", key |-> <<>>,
                       volume |-> 0, price |-> commission, closed |-> 0, value |-> Num(0)]
    /\ UNCHANGED <<account_id, initial_capital, acct_balance, acct_frozen,
                   acct_margin, positions, file, opened,
                   gate_vars, scalp_vars, sender_vars, eval_vars,
                   filter_last, catalog_last, threads, predictive, instance_vars>>

\* AccountManager.update_balance(amount)
UpdateBalance(amount) ==
    /\ ledger_ops < MaxLedgerOps
    /\ ledger_ops' = ledger_ops + 1
    /\ acct_balance' = FAdd(acct_balance, Num(amount))
    /\ acct_available' = FAdd(acct_available, Num(amount))
    /\ cash_due' = FAdd(cash_due, Num(amount))
    /\ ledger_last' = [op |-> "update_balance", ret |-> "ok", key |-> <<>>,
                       volume |-> 0, price |-> amount, closed |-> 0, value |-> Num(0)]
    /\ UNCHANGED <<account_id, initial_capital, acct_frozen, acct_margin,
                   acct_commission, positions, trade_records, file, opened,
                   gate_vars, scalp_vars, sender_vars, eval_vars,
                   filter_last, catalog_last, threads, predictive, instance_vars>>

\* the fields of an AccountManager instance, as one value
Ledger ==
    [account_id |-> account_id, initial_capital |-> initial_capital,
     balance |-> acct_balance, available |-> acct_available,
     frozen |-> acct_frozen, margin |-> acct_margin,
     commission |-> acct_commission, positions |-> positions,
     trade_records |-> trade_records]

\* AccountManager.to_dict (update_time and the order record count left out)
ToDict(l) ==
    [account_id |-> l.account_id, initial_capital |-> l.initial_capital,
     balance |-> l.balance, available |-> l.available, frozen |-> l.frozen,
     margin |-> l.margin, commission |-> l.commission,
     positions |-> l.positions, trade_records_count |-> l.trade_records]

\* json.dump accepts the dictionary: asdict(Position) keeps the
\* PositionDirection member, which the encoder rejects with TypeError
JsonSerializable(d) == DOMAIN d.positions = {}

\* the file save_to_file leaves behind: opened with 'w', then written until
\* the encoder raises
SavedFile(l) ==
    IF JsonSerializable(ToDict(l))
    THEN [kind |-> "snapshot", data |-> <<ToDict(l)>>]
    ELSE [kind |-> "truncated", data |-> <<>>]

\* the instance load_from_file builds from the dictionary it read: cls(...)
\* starts with empty trade_records, and nothing restores them
LoadedLedger(data) ==
    [account_id |-> data.account_id, initial_capital |-> data.initial_capital,
     balance |-> data.balance, available |-> data.available,
     frozen |-> data.frozen, margin |-> data.margin,
     commission |-> data.commission, positions |-> data.positions,
     trade_records |-> 0]

\* AccountManager.save_to_file(filepath)
SaveToFile ==
    /\ ledger_ops < MaxLedgerOps
    /\ ledger_ops' = ledger_ops + 1
    /\ file' = SavedFile(Ledger)
    /\ ledger_last' = [op |-> "save_to_file",
                       ret |-> IF JsonSerializable(ToDict(Ledger))
                               THEN "ok" ELSE "TypeError",
                       key |-> <<>>, volume |-> 0, price |-> 0,
                       closed |-> 0, value |-> Num(0)]
    /\ UNCHANGED <<account_id, initial_capital, acct_balance, acct_available,
                   acct_frozen, acct_margin, acct_commission, positions,
                   trade_records, opened, cash_due,
                   gate_vars, scalp_vars, sender_vars, eval_vars,
                   filter_last, catalog_last, threads, predictive, instance_vars>>

\* AccountManager.load_from_file(filepath); the instance it returns takes the
\* place of the ledger
LoadFromFile ==
    /\ ledger_ops < MaxLedgerOps
    /\ ledger_ops' = ledger_ops + 1
    /\ IF file.kind = "snapshot"
       THEN LET l == LoadedLedger(file.data[1]) IN
            /\ account_id' = l.account_id
            /\ initial_capital' = l.initial_capital
            /\ acct_balance' = l.balance
            /\ acct_available' = l.available
            /\ acct_frozen' = l.frozen
            /\ acct_margin' = l.margin
            /\ acct_commission' = l.commission
            /\ positions' = l.positions
            /\ trade_records' = l.trade_records
            /\ opened' = <<>>
            /\ ledger_last' = [op |-> "load_from_file", ret |-> "ok",
                               key |-> <<>>, volume |-> 0, price |-> 0,
                       closed |-> 0, value |-> Num(0)]
       ELSE /\ ledger_last' = [op |-> "load_from_file",
                               ret |-> IF file.kind = "none"
                                       THEN "FileNotFoundError"
                                       ELSE "JSONDecodeError",
                               key |-> <<>>, volume |-> 0, price |-> 0,
                       closed |-> 0, value |-> Num(0)]
            /\ UNCHANGED <<account_id, initial_capital, acct_balance,
                           acct_available, acct_frozen, acct_margin,
                           acct_commission, positions, trade_records, opened>>
    /\ UNCHANGED <<file, cash_due, gate_vars, scalp_vars, sender_vars, eval_vars,
                   filter_last, catalog_last, threads, predictive, instance_vars>>

\* Position.update_pnl(current_price): the value stored in pnl and returned
update_pnl(position, direction, current_price) ==
    IF direction = "LONG"
    THEN FMul(FSub(Num(current_price), position.price), Num(position.volume))
    ELSE FMul(FSub(position.price, Num(current_price)), Num(position.volume))

\* the key calculate_position_pnl reports on: the long entry when there is
\* one, else the short entry, else none
ReportedKey(symbol) ==
    IF PositionKey(symbol, "LONG") \in DOMAIN positions
    THEN <<PositionKey(symbol, "LONG")>>
    ELSE IF PositionKey(symbol, "SHORT") \in DOMAIN positions
    THEN <<PositionKey(symbol, "SHORT")>>
    ELSE <<>>

\* calculate_position_pnl(symbol, current_price)
CalculatePositionPnl(symbol, current_price) ==
    LET reported == ReportedKey(symbol)
        key      == IF reported = <<>> THEN PositionKey(symbol, "LONG")
                    ELSE reported[1]
        value    == IF reported = <<>> THEN Num(0)
                    ELSE update_pnl(positions[key], key[2], current_price)
    IN  /\ ledger_ops < MaxLedgerOps
        /\ ledger_ops' = ledger_ops + 1
        /\ positions' = IF reported = <<>> THEN positions
                        ELSE [positions EXCEPT ![key].pnl = value]
        /\ ledger_last' = [op |-> "calculate_position_pnl", ret |-> "ok",
                           key |-> key, volume |-> 0, price |-> current_price,
                           closed |-> 0, value |-> value]
        /\ UNCHANGED <<account_id, initial_capital, acct_balance,
                       acct_available, acct_frozen, acct_margin,
                       acct_commission, trade_records, file, opened, cash_due,
                       gate_vars, scalp_vars, sender_vars, eval_vars,
                       filter_last, catalog_last, threads, predictive, instance_vars>>

\* sum of the values of f over the keys in S
RECURSIVE FSum(_, _)
FSum(f, S) ==
    IF S = {} THEN Num(0)
    ELSE LET k == CHOOSE x \in S : TRUE
         IN  FAdd(f[k], FSum(f, S \ {k}))

\* calculate_total_pnl(market_prices): every position whose symbol has a
\* market price is marked to it
CalculateTotalPnl(market_prices) ==
    LET marked == {key \in DOMAIN positions : key[1] \in DOMAIN market_prices}
        pnl    == [key \in marked |->
                      update_pnl(positions[key], key[2], market_prices[key[1]])]
    IN  /\ ledger_ops < MaxLedgerOps
        /\ ledger_ops' = ledger_ops + 1
        /\ positions' = [key \in DOMAIN positions |->
                            IF key \in marked
                            THEN [positions[key] EXCEPT !.pnl = pnl[key]]
                            ELSE positions[key]]
        /\ ledger_last' = [op |-> "calculate_total_pnl", ret |-> "ok",
                           key |-> <<>>, volume |-> 0, price |-> 0,
                           closed |-> 0, value |-> FSum(pnl, marked)]
        /\ UNCHANGED <<account_id, initial_capital, acct_balance,
                       acct_available, acct_frozen, acct_margin,
                       acct_commission, trade_records, file, opened, cash_due,
                       gate_vars, scalp_vars, sender_vars, eval_vars,
                       filter_last, catalog_last, threads, predictive, instance_vars>>

\* fills and valuations of the ledger
MarkNext ==
    \/ \E symbol \in LedgerSymbols, direction \in PositionDirections,
          volume \in LedgerVolumes, price \in LedgerPrices,
          offset_flag \in OffsetFlags :
           UpdatePosition(symbol, direction, volume, price, offset_flag)
    \/ \E symbol \in LedgerSymbols, current_price \in LedgerPrices :
           CalculatePositionPnl(symbol, current_price)
    \/ \E market_prices \in UNION {[S -> LedgerPrices] : S \in SUBSET LedgerSymbols} :
           CalculateTotalPnl(market_prices)

\* record_trade with the volume and the price of the trade it records; they
\* go into the record and nowhere else
RecordTradeOf(volume, price, commission) ==
    /\ ledger_ops < MaxLedgerOps
    /\ ledger_ops' = ledger_ops + 1
    /\ trade_records' = trade_records + 1
    /\ acct_commission' = CommissionAfter(acct_commission, commission)
    /\ acct_available' = FSub(acct_available, Num(commission))
    /\ cash_due' = FSub(cash_due, Num(commission))
    /\ ledger_last' = [op |-> "record_trade_of", ret |-> "ok", key |-> <<>>,
                       volume |-> volume, price |-> price, closed |-> 0,
                       value |-> Num(0)]
    /\ UNCHANGED <<account_id, initial_capital, acct_balance, acct_frozen,
                   acct_margin, positions, file, opened,
                   gate_vars, scalp_vars, sender_vars, eval_vars,
                   filter_last, catalog_last, threads, predictive, instance_vars>>

\* the ledger driven with the volumes and prices a caller may hand over, the
\* ones a fill cannot have included
RawNext ==
    \/ \E symbol \in LedgerSymbols, direction \in PositionDirections,
          volume \in {-1, 2}, price \in {0, 4000},
          offset_flag \in OffsetFlags :
           UpdatePosition(symbol, direction, volume, price, offset_flag)
    \/ \E volume \in {-1, 2}, price \in {0, 4000},
          commission \in LedgerCommissions :
           RecordTradeOf(volume, price, commission)

\* fills on both sides of one symbol and on a second symbol; opening fills
\* come at either price, closing fills at the lower one
FrameNext ==
    \E key \in {<<"rb2605", "LONG">>, <<"rb2605", "SHORT">>, <<"cu2605", "LONG">>},
       volume \in {1, 2}, offset_flag \in OffsetFlags :
        \E price \in IF offset_flag = "open" THEN LedgerPrices ELSE {4000} :
            UpdatePosition(key[1], key[2], volume, price, offset_flag)

LedgerNext ==
    \/ \E symbol \in LedgerSymbols, direction \in PositionDirections,
          volume \in LedgerVolumes, price \in LedgerPrices,
          offset_flag \in OffsetFlags :
           UpdatePosition(symbol, direction, volume, price, offset_flag)
    \/ \E commission \in LedgerCommissions : RecordTrade(commission)
    \/ \E amount \in LedgerAmounts : UpdateBalance(amount)
    \/ SaveToFile
    \/ LoadFromFile

----------------------------------------------------------------------------
(* Part 5: the profitability evaluator of SmartAutoTrading *)

\* CONTRACT_SPECS of contract_specs.py (exchange and name left out)
ContractSpec(size, price_tick, margin_ratio, open, close, close_today) ==
    [size |-> size, price_tick |-> price_tick, margin_ratio |-> margin_ratio,
     commission_open |-> open, commission_close |-> close,
     commission_close_today |-> close_today]

CONTRACT_SPECS ==
    ("rb2605" :> ContractSpec(10, Num(1), Frac(9, 100), Frac(1, 10000),
                              Frac(1, 10000), Frac(1, 10000)))
 @@ ("cu2605" :> ContractSpec(5, Num(10), Frac(12, 100), Frac(5, 100000),
                              Frac(5, 100000), Frac(5, 100000)))
 @@ ("ni2605" :> ContractSpec(1, Num(10), Frac(12, 100), Num(3), Num(3), Num(6)))
 @@ ("SR309"  :> ContractSpec(10, Num(1), Frac(5, 100), Num(3), Num(3), Num(3)))
 @@ ("IF2606" :> ContractSpec(300, Frac(1, 5), Frac(1, 10), Num(0), Num(23), Num(23)))

\* vnpy Direction and Offset members the evaluator is called with
Directions == {"LONG", "SHORT"}
Offsets == {"OPEN", "CLOSE", "CLOSETODAY", "CLOSEYESTERDAY"}

\* expected returns the evaluator is asked about: 1 %, 0.2 %, 0, -1 % and
\* -200 % (an expected exit price below 0)
EvalReturns == {Frac(1, 100), Frac(1, 500), Num(0), Frac(-1, 100), Num(-2)}

EvalInit ==
    /\ contract_to_trade \in DOMAIN CONTRACT_SPECS
    /\ contract_spec = CONTRACT_SPECS[contract_to_trade]
    /\ current_capital = Num(100000)
    /\ eval_last = [op |-> "init", expected_return |-> Num(0), price |-> Num(0),
                    volume |-> 0, direction |-> "LONG", offset |-> "OPEN",
                    accepted |-> FALSE, amount |-> Num(0),
                    total_commission |-> Num(0)]

\* mutant of calculate_required_margin: the contract size is left out
calculate_required_margin_NoSize(price, volume) ==
    FMul(FMul(price, Num(volume)), contract_spec.margin_ratio)

\* SmartAutoTrading.calculate_required_margin(price, volume)
calculate_required_margin(price, volume) ==
    FMul(FMul(FMul(price, Num(contract_spec.size)), Num(volume)),
         contract_spec.margin_ratio)

\* calculate_commission, lines 639-646: the field the offset selects
commission_rate(direction, offset) ==
    IF offset = "OPEN" THEN contract_spec.commission_open
    ELSE IF direction = "SHORT" /\ offset = "CLOSETODAY"
         THEN contract_spec.commission_close_today
    ELSE IF offset = "CLOSETODAY" THEN contract_spec.commission_close_today
    ELSE contract_spec.commission_close

\* mutant of calculate_commission: the rate is applied per lot, without the
\* contract size
calculate_commission_NoSize(price, volume, direction, offset) ==
    IF FLess(Num(1), commission_rate(direction, offset))
    THEN FMul(commission_rate(direction, offset), Num(volume))
    ELSE FMul(FMul(price, Num(volume)), commission_rate(direction, offset))

\* SmartAutoTrading.calculate_commission(price, volume, direction, offset)
calculate_commission(price, volume, direction, offset) ==
    IF FLess(Num(1), commission_rate(direction, offset))
    THEN FMul(commission_rate(direction, offset), Num(volume))
    ELSE FMul(FMul(FMul(price, Num(contract_spec.size)), Num(volume)),
              commission_rate(direction, offset))

\* SmartAutoTrading.calculate_potential_profit(entry_price,
\* exit_price, volume, direction)
calculate_potential_profit(entry, exit_price, volume, direction) ==
    IF direction = "LONG"
    THEN FMul(FMul(FSub(exit_price, entry), Num(contract_spec.size)), Num(volume))
    ELSE FMul(FMul(FSub(entry, exit_price), Num(contract_spec.size)), Num(volume))

\* mutant of expected_exit_price: the exit of a short is computed like that
\* of a long
expected_exit_price_LongOnly(expected_return, entry, direction) ==
    FMul(entry, FAdd(Num(1), expected_return))

\* is_profitable_trade, lines 669-670
expected_exit_price(expected_return, entry, direction) ==
    IF direction = "LONG"
    THEN FMul(entry, FAdd(Num(1), expected_return))
    ELSE FMul(entry, FSub(Num(1), expected_return))

\* is_profitable_trade, lines 676-678
total_commission(expected_return, entry, volume, direction) ==
    FAdd(calculate_commission(entry, volume, direction, "OPEN"),
         calculate_commission(expected_exit_price(expected_return, entry, direction),
                              volume, direction, "CLOSE"))

\* is_profitable_trade, line 681
net_profit(expected_return, entry, volume, direction) ==
    FSub(calculate_potential_profit(
             entry, expected_exit_price(expected_return, entry, direction),
             volume, direction),
         total_commission(expected_return, entry, volume, direction))

\* SmartAutoTrading.is_profitable_trade(expected_return, entry_price,
\* volume, direction)
is_profitable_trade(expected_return, entry, volume, direction) ==
    LET min_net_profit ==
            FMul(total_commission(expected_return, entry, volume, direction),
                 Frac(1, 2))
    IN  /\ FLess(min_net_profit,
                 net_profit(expected_return, entry, volume, direction))
        /\ FLeq(calculate_required_margin(entry, volume), current_capital)

\* a call of is_profitable_trade
IsProfitableTrade(expected_return, entry, volume, direction) ==
    /\ eval_last' =
           [op |-> "is_profitable_trade", expected_return |-> expected_return,
            price |-> Num(entry), volume |-> volume,
            direction |-> direction, offset |-> "OPEN",
            accepted |-> is_profitable_trade(expected_return, Num(entry),
                                             volume, direction),
            amount |-> net_profit(expected_return, Num(entry), volume, direction),
            total_commission |-> total_commission(expected_return, Num(entry),
                                                  volume, direction)]
    /\ UNCHANGED <<contract_to_trade, contract_spec, current_capital,
                   gate_vars, scalp_vars, sender_vars, ledger_vars,
                   filter_last, catalog_last, threads, predictive, instance_vars>>

\* a call of calculate_commission
CalculateCommission(price, volume, direction, offset) ==
    /\ eval_last' =
           [op |-> "calculate_commission", expected_return |-> Num(0),
            price |-> Num(price), volume |-> volume, direction |-> direction,
            offset |-> offset, accepted |-> FALSE,
            amount |-> calculate_commission(Num(price), volume, direction, offset),
            total_commission |-> Num(0)]
    /\ UNCHANGED <<contract_to_trade, contract_spec, current_capital,
                   gate_vars, scalp_vars, sender_vars, ledger_vars,
                   filter_last, catalog_last, threads, predictive, instance_vars>>

EvalNext ==
    \/ \E expected_return \in EvalReturns, entry \in EvalPrices,
          volume \in EvalVolumes, direction \in Directions :
           IsProfitableTrade(expected_return, entry, volume, direction)
    \/ \E price \in EvalPrices, volume \in EvalVolumes,
          direction \in Directions, offset \in Offsets :
           CalculateCommission(price, volume, direction, offset)

----------------------------------------------------------------------------
(* Part 6: check_orderflow as a function of its inputs *)

\* the snapshots, ages and directions check_orderflow is called with: spreads
\* of 1, 2, 3 and 4 ticks, volume pairs on both sides of the imbalance ratio,
\* ages on both sides of the freshness window
FilterTicks ==
    {<<>>} \cup {<<Tick(b, a, bv, av)>> :
                    b \in {3999, 4000}, a \in {4001, 4003},
                    bv \in {0, 2, 3, 4}, av \in {0, 2, 3}}

FilterInit ==
    filter_last = [op |-> "none"]

\* a call of check_orderflow(direction) while self.last_tick is t and
\* time.time() - self.last_tick_time is age
CheckOrderflowCall(t, age, direction) ==
    /\ filter_last' = [op |-> "check_orderflow", tick |-> t, age |-> age,
                       direction |-> direction,
                       ret |-> CheckOrderflow(t, age, direction)]
    /\ UNCHANGED <<gate_vars, scalp_vars, sender_vars, ledger_vars, eval_vars,
                   catalog_last, threads, predictive, instance_vars>>

FilterNext ==
    \E t \in FilterTicks, age \in {0, 2, 3}, direction \in {"long", "short"} :
        CheckOrderflowCall(t, age, direction)

----------------------------------------------------------------------------
(* Part 7: contract catalog *)

\* the keys of CONTRACT_SPECS in the order the dictionary iterates them
CatalogKeys == <<"rb2605", "cu2605", "ni2605", "SR309", "IF2606">>

\* a symbol is the sequence of its characters
Spelling ==
    ("rb2605" :> <<"r", "b", "2", "6", "0", "5">>)
 @@ ("cu2605" :> <<"c", "u", "2", "6", "0", "5">>)
 @@ ("ni2605" :> <<"n", "i", "2", "6", "0", "5">>)
 @@ ("SR309"  :> <<"S", "R", "3", "0", "9">>)
 @@ ("IF2606" :> <<"I", "F", "2", "6", "0", "6">>)

\* longest symbol built from the alphabet
MaxSymbolLen == 3

\* the symbols looked up: every string of up to MaxSymbolLen characters over
\* a small alphabet, the table keys, another delivery month of a listed
\* product, and products that are not listed
CatalogSymbols ==
    UNION {[1..n -> {"r", "b", "c", "u", "9"}] : n \in 0..MaxSymbolLen}
    \cup {Spelling[k] : k \in DOMAIN Spelling}
    \cup {<<"c", "u", "2", "6", "1", "0">>, <<"a", "g", "2", "6", "0", "5">>,
          <<"I", "C", "2", "6", "0", "6">>}

\* symbol[:n]
Slice(symbol, n) == SubSeq(symbol, 1, Min(n, Len(symbol)))

\* key.startswith(prefix)
StartsWith(key, prefix) ==
    /\ Len(prefix) <= Len(key)
    /\ SubSeq(key, 1, Len(prefix)) = prefix

\* CONTRACT_SPECS.get("rb2605", {...}) with the dictionary literal of the
\* return statement
CatalogDefault ==
    IF "rb2605" \in DOMAIN CONTRACT_SPECS THEN CONTRACT_SPECS["rb2605"]
    ELSE ContractSpec(10, Num(1), Frac(1, 10), Frac(1, 10000), Frac(1, 10000),
                      Frac(1, 10000))

\* get_contract_spec(symbol): the first key, in table order, that starts with
\* the first two characters of the symbol
get_contract_spec(symbol) ==
    LET hits == {i \in 1..Len(CatalogKeys) :
                    StartsWith(Spelling[CatalogKeys[i]], Slice(symbol, 2))}
    IN  IF hits # {}
        THEN CONTRACT_SPECS[CatalogKeys[CHOOSE i \in hits :
                                           \A j \in hits : i <= j]]
        ELSE CatalogDefault

CatalogInit ==
    catalog_last = [op |-> "none"]

\* a call of get_contract_spec
GetContractSpec(symbol) ==
    /\ catalog_last' = [op |-> "get_contract_spec", symbol |-> symbol,
                        ret |-> get_contract_spec(symbol)]
    /\ UNCHANGED <<gate_vars, scalp_vars, sender_vars, ledger_vars, eval_vars,
                   filter_last, threads, predictive, instance_vars>>

CatalogNext ==
    \E symbol \in CatalogSymbols : GetContractSpec(symbol)

----------------------------------------------------------------------------
(* Part 8: threads on one AccountManager *)

\* AccountManager takes no lock: "self.x += v" is a read of the attribute
\* followed by a write, and another thread may run in between.

\* the threads and the symbol each one fills
ThreadSymbol == (1 :> "rb2605") @@ (2 :> "cu2605")

\* the attribute a thread reads or writes at each position in the code
ThreadAttribute ==
    ("read_margin" :> "margin") @@ ("write_margin" :> "margin")
 @@ ("read_available" :> "available") @@ ("write_available" :> "available")
 @@ ("read_commission" :> "commission") @@ ("write_commission" :> "commission")
 @@ ("read_available_2" :> "available") @@ ("write_available_2" :> "available")

\* the position in the code that follows each position
ThreadNextPc ==
    ("position" :> "read_margin") @@ ("read_margin" :> "write_margin")
 @@ ("write_margin" :> "read_available")
 @@ ("read_available" :> "write_available") @@ ("write_available" :> "append")
 @@ ("append" :> "read_commission") @@ ("read_commission" :> "write_commission")
 @@ ("write_commission" :> "read_available_2")
 @@ ("read_available_2" :> "write_available_2")
 @@ ("write_available_2" :> "done")

ThreadInit ==
    threads = [t \in DOMAIN ThreadSymbol |-> [pc |-> "idle"]]

\* thread t is handed a fill and enters update_position
ThreadBegin(t, offset_flag, volume, price, commission) ==
    /\ threads[t].pc = "idle"
    /\ threads' = [threads EXCEPT ![t] =
                      [pc |-> "position", offset_flag |-> offset_flag,
                       volume |-> volume, price |-> price,
                       commission |-> commission, reg |-> Num(0)]]
    /\ UNCHANGED <<gate_vars, scalp_vars, sender_vars, ledger_vars, eval_vars,
                   filter_last, catalog_last, predictive, instance_vars>>

\* update_position, lines 130-157: the entry of the thread's own key
ThreadPosition(t) ==
    LET f == threads[t] IN
    /\ f.pc = "position"
    /\ positions' = PositionsAfter(PositionKey(ThreadSymbol[t], "LONG"),
                                   f.volume, f.price, f.offset_flag)
    /\ threads' = [threads EXCEPT ![t].pc = ThreadNextPc[f.pc]]
    /\ UNCHANGED <<account_id, initial_capital, acct_balance, acct_available,
                   acct_frozen, acct_margin, acct_commission, trade_records,
                   file, opened, cash_due, ledger_ops, ledger_last,
                   gate_vars, scalp_vars, sender_vars, eval_vars,
                   filter_last, catalog_last, predictive, instance_vars>>

\* the first half of an augmented assignment: the attribute is read
ThreadRead(t) ==
    LET f == threads[t] IN
    /\ f.pc \in {"read_margin", "read_available", "read_commission",
                "read_available_2"}
    /\ threads' = [threads EXCEPT
                      ![t].pc = ThreadNextPc[f.pc],
                      ![t].reg = CASE ThreadAttribute[f.pc] = "margin" -> acct_margin
                                   [] ThreadAttribute[f.pc] = "available" -> acct_available
                                   [] OTHER -> acct_commission]
    /\ UNCHANGED <<gate_vars, scalp_vars, sender_vars, ledger_vars, eval_vars,
                   filter_last, catalog_last, predictive, instance_vars>>

\* the value an augmented assignment stores, from the value it has read
ThreadStored(f) ==
    CASE f.pc = "write_margin" ->
             MarginAfter(f.reg, f.volume, f.price, f.offset_flag)
      [] f.pc = "write_available" ->
             IF f.offset_flag = "open"
             THEN FSub(f.reg, MarginMoved(f.volume, f.price))
             ELSE FAdd(f.reg, MarginMoved(f.volume, f.price))
      [] f.pc = "write_commission" -> CommissionAfter(f.reg, f.commission)
      [] OTHER -> FSub(f.reg, Num(f.commission))

\* the second half of an augmented assignment: the attribute is written
ThreadWrite(t) ==
    LET f == threads[t]
        a == ThreadAttribute[f.pc]
    IN  /\ f.pc \in {"write_margin", "write_available", "write_commission",
                    "write_available_2"}
        /\ acct_margin' = IF a = "margin" THEN ThreadStored(f) ELSE acct_margin
        /\ acct_available' =
               IF a = "available" THEN ThreadStored(f) ELSE acct_available
        /\ acct_commission' =
               IF a = "commission" THEN ThreadStored(f) ELSE acct_commission
        /\ threads' = [threads EXCEPT ![t].pc = ThreadNextPc[f.pc],
                                      ![t].reg = Num(0)]
        /\ UNCHANGED <<account_id, initial_capital, acct_balance, acct_frozen,
                       positions, trade_records, file, opened, cash_due,
                       ledger_ops, ledger_last,
                       gate_vars, scalp_vars, sender_vars, eval_vars,
                       filter_last, catalog_last, predictive, instance_vars>>

\* record_trade, line 182: the record is appended
ThreadAppend(t) ==
    LET f == threads[t] IN
    /\ f.pc = "append"
    /\ trade_records' = trade_records + 1
    /\ threads' = [threads EXCEPT ![t].pc = ThreadNextPc[f.pc]]
    /\ UNCHANGED <<account_id, initial_capital, acct_balance, acct_available,
                   acct_frozen, acct_margin, acct_commission, positions,
                   file, opened, cash_due, ledger_ops, ledger_last,
                   gate_vars, scalp_vars, sender_vars, eval_vars,
                   filter_last, catalog_last, predictive, instance_vars>>

ThreadNext ==
    \E t \in DOMAIN ThreadSymbol :
        \/ \E offset_flag \in OffsetFlags, volume \in {1, 2},
              price \in {4000}, commission \in {3} :
               ThreadBegin(t, offset_flag, volume, price, commission)
        \/ ThreadPosition(t)
        \/ ThreadRead(t)
        \/ ThreadWrite(t)
        \/ ThreadAppend(t)

----------------------------------------------------------------------------
(* Part 9: PredictiveTradingStrategy *)

\* contract.size, or the default of execute_trading_logic
pred_contract_size == 10

PredInit ==
    predictive = [pos |-> 0, last_price |-> 0, prediction_value |-> 0,
                  entry_price |-> 0, highest_price |-> 0, lowest_price |-> 0,
                  orders |-> EmptyBag, emitted |-> <<>>, op |-> "init"]

\* actual_size = min(fixed_size, int(balance * max_position_percent
\*                                   / (last_price * contract_size)), 10)
actual_size(last_price) ==
    Min(Min(fixed_size, (balance * 20) \div (last_price * pred_contract_size * 100)), 10)

\* expected_return > prediction_threshold and < -prediction_threshold, with
\* expected_return = (prediction_value - last_price) / last_price and a
\* threshold of 0.01
PredictsRise(p) == (p.prediction_value - p.last_price) * 100 > p.last_price
PredictsFall(p) == (p.last_price - p.prediction_value) * 100 > p.last_price

\* the orders the four branches of execute_trading_logic send, in order
DirectionalIntents(p) ==
    LET size == actual_size(p.last_price) IN
    IF PredictsRise(p) /\ p.pos = 0
    THEN <<Intent("buy", p.last_price + 1, size, "entry", 1)>>
    ELSE IF PredictsRise(p) /\ p.pos < 0
    THEN <<Intent("cover", p.last_price + 1, Abs(p.pos), "reverse", 1),
           Intent("buy", p.last_price + 1, size, "reverse", 1)>>
    ELSE IF PredictsFall(p) /\ p.pos = 0
    THEN <<Intent("short", p.last_price - 1, size, "entry", -1)>>
    ELSE IF PredictsFall(p) /\ p.pos > 0
    THEN <<Intent("sell", p.last_price - 1, p.pos, "reverse", -1),
           Intent("short", p.last_price - 1, size, "reverse", -1)>>
    ELSE <<>>

\* update_trailing_stop: the highest and the lowest price it leaves, and the
\* order it sends (trailing_percent = 0.8, so the stops are 0.992 and 1.008
\* of the extreme)
TrailingHighest(p) ==
    IF p.pos > 0 /\ p.last_price > p.highest_price THEN p.last_price
    ELSE p.highest_price
TrailingLowest(p) ==
    IF p.pos < 0 /\ p.last_price < p.lowest_price THEN p.last_price
    ELSE p.lowest_price
TrailingIntents(p) ==
    IF p.pos > 0 /\ p.last_price * 1000 < TrailingHighest(p) * 992
    THEN <<Intent("sell", p.last_price - 1, Abs(p.pos), "trailing_stop", 0)>>
    ELSE IF p.pos < 0 /\ p.last_price * 1000 > TrailingLowest(p) * 1008
    THEN <<Intent("cover", p.last_price + 1, Abs(p.pos), "trailing_stop", 0)>>
    ELSE <<>>

\* execute_trading_logic() on the attributes p
execute_trading_logic(p) ==
    IF p.prediction_value = 0 \/ p.last_price = 0
    THEN [p EXCEPT !.emitted = <<>>]
    ELSE LET intents == DirectionalIntents(p) \o TrailingIntents(p) IN
         [p EXCEPT
            !.entry_price = IF DirectionalIntents(p) # <<>> THEN p.last_price
                            ELSE p.entry_price,
            !.highest_price = TrailingHighest(p),
            !.lowest_price = TrailingLowest(p),
            !.orders = p.orders (+) SeqToBag([i \in DOMAIN intents |->
                                                 [kind |-> intents[i].kind,
                                                  price |-> intents[i].price,
                                                  volume |-> intents[i].volume]]),
            !.emitted = intents]

\* on_tick(tick): tick.last_price = price; decides says whether the price
\* history is full and a minute has passed since the last prediction, and
\* value is what generate_prediction leaves in prediction_value
PredOnTick(price, decides, value) ==
    LET seen == [predictive EXCEPT !.last_price = price, !.emitted = <<>>,
                                   !.op = "tick"]
    IN  /\ BagCardinality(predictive.orders) < MaxPending
        /\ predictive' = IF decides
                         THEN execute_trading_logic(
                                  [seen EXCEPT !.prediction_value = value])
                         ELSE seen
        /\ UNCHANGED <<gate_vars, scalp_vars, sender_vars, ledger_vars,
                       eval_vars, filter_last, catalog_last, threads, instance_vars>>

\* on_bar(bar) once the price history is full: last_price stays that of the
\* last tick
PredOnBar(value) ==
    /\ BagCardinality(predictive.orders) < MaxPending
    /\ predictive' = execute_trading_logic(
                         [predictive EXCEPT !.prediction_value = value,
                                            !.emitted = <<>>, !.op = "bar"])
    /\ UNCHANGED <<gate_vars, scalp_vars, sender_vars, ledger_vars,
                   eval_vars, filter_last, catalog_last, threads, instance_vars>>

\* on_trade(trade): the pending order o fills at its price; the CTA engine
\* moves pos, the strategy restarts its extremes on an opening fill
PredOnTrade(o) ==
    /\ \/ IsOpen(o)
       \/ o.kind = "sell" /\ predictive.pos >= o.volume
       \/ o.kind = "cover" /\ -predictive.pos >= o.volume
    /\ predictive' = [predictive EXCEPT
           !.pos = PosAfterFill(predictive.pos, o),
           !.orders = predictive.orders (-) SetToBag({o}),
           !.entry_price = IF IsOpen(o) THEN o.price ELSE predictive.entry_price,
           !.highest_price = IF IsOpen(o) THEN o.price ELSE predictive.highest_price,
           !.lowest_price = IF IsOpen(o) THEN o.price ELSE predictive.lowest_price,
           !.emitted = <<>>,
           !.op = "trade"]
    /\ UNCHANGED <<gate_vars, scalp_vars, sender_vars, ledger_vars,
                   eval_vars, filter_last, catalog_last, threads, instance_vars>>

\* on_order(order): the pending order o is cancelled or rejected; the handler
\* only logs
PredOnOrder(o) ==
    /\ predictive' = [predictive EXCEPT
           !.orders = predictive.orders (-) SetToBag({o}),
           !.emitted = <<>>,
           !.op = "order"]
    /\ UNCHANGED <<gate_vars, scalp_vars, sender_vars, ledger_vars,
                   eval_vars, filter_last, catalog_last, threads, instance_vars>>

\* last prices of 980, 1000 and 1020, and predictions of 980 and 1020
\* (prediction_value is 0.0 until the first prediction)
PredNext ==
    \/ \E price \in {980, 1000, 1020}, decides \in BOOLEAN, value \in {980, 1020} :
           PredOnTick(price, decides, value)
    \/ \E value \in {980, 1020} : PredOnBar(value)
    \/ \E o \in BagToSet(predictive.orders) : PredOnTrade(o)
    \/ \E o \in BagToSet(predictive.orders) : PredOnOrder(o)

----------------------------------------------------------------------------
(* Part 10: two strategy instances *)

\* A strategy object reads "self.x" from its own attributes and, when it has
\* none of that name, from its class; "self.x = v" always writes the object's
\* own attribute. The code never assigns to a class.

\* the two instances and the symbol each one trades
InstanceSymbol == (1 :> "rb2605") @@ (2 :> "cu2605")

\* experiences kept in one run
MaxExperience == 2

\* what the class statements bind: the variables of the scalp strategies and
\* those of RLTradingStrategy
ClassAttributes ==
    [scalp |-> [last_trade_time |-> 0, trade_count |-> 0, entry_price |-> 0,
                last_tick_time |-> 0],
     rl    |-> [position |-> 0, last_obs |-> <<>>, last_action |-> <<>>]]

\* self.name as instance i reads it
Attr(i, name) ==
    IF name \in DOMAIN instances[i] THEN instances[i][name]
    ELSE ClassAttributes[instances[i].class][name]

\* the attributes of an object after "self.name = value" for each name of
\* the record written
Assigned(self, written) ==
    [name \in DOMAIN self \cup DOMAIN written |->
        IF name \in DOMAIN written THEN written[name] ELSE self[name]]

\* __init__: CtaTemplate sets pos, the scalp strategies set last_tick; the
\* module statement of real_time_trade.py binds experience_buffer to one list
InstanceInit ==
    /\ \E class \in DOMAIN ClassAttributes :
           instances = [i \in DOMAIN InstanceSymbol |->
                           IF class = "scalp"
                           THEN [class |-> class, pos |-> 0, last_tick |-> <<>>]
                           ELSE [class |-> class, pos |-> 0]]
    /\ experience_buffer = <<>>
    /\ instance_last = [op |-> "init"]

\* on_tick(tick) of scalp instance i at time now
InstanceOnTick(i, t, now) ==
    /\ instances[i].class = "scalp"
    /\ instances' = [instances EXCEPT ![i] =
           Assigned(@, [last_tick |-> <<t>>, last_tick_time |-> now])]
    /\ instance_last' = [op |-> "tick", self |-> i]
    /\ UNCHANGED <<experience_buffer, gate_vars, scalp_vars, sender_vars,
                   ledger_vars, eval_vars, filter_last, catalog_last, threads,
                   predictive>>

\* on_1min_bar(bar) / on_bar(bar) of scalp instance i at time now: enters
\* says whether the bar takes one of the two entry branches
InstanceOnBar(i, price, now, enters) ==
    /\ instances[i].class = "scalp"
    /\ instances' =
           IF enters /\ Attr(i, "trade_count") < max_trades_per_day
           THEN [instances EXCEPT ![i] =
                    Assigned(@, [entry_price |-> price,
                                 last_trade_time |-> now,
                                 trade_count |-> Attr(i, "trade_count") + 1])]
           ELSE instances
    /\ instance_last' = [op |-> "bar", self |-> i]
    /\ UNCHANGED <<experience_buffer, gate_vars, scalp_vars, sender_vars,
                   ledger_vars, eval_vars, filter_last, catalog_last, threads,
                   predictive>>

\* a fill of instance i: the CTA engine moves its pos before on_trade, which
\* only logs
InstanceOnTrade(i, change) ==
    /\ instances[i].pos + change \in {-1, 0, 1}
    /\ instances' = [instances EXCEPT ![i] =
           Assigned(@, [pos |-> instances[i].pos + change])]
    /\ instance_last' = [op |-> "trade", self |-> i]
    /\ UNCHANGED <<experience_buffer, gate_vars, scalp_vars, sender_vars,
                   ledger_vars, eval_vars, filter_last, catalog_last, threads,
                   predictive>>

\* RLTradingStrategy.on_bar(bar) of instance i once its ArrayManager is ready:
\* the experience is appended to the list of the module, then the
\* observation, the action and the position are kept on the instance
InstanceRlOnBar(i, target) ==
    /\ instances[i].class = "rl"
    /\ Len(experience_buffer) < MaxExperience
    /\ experience_buffer' =
           IF Attr(i, "last_obs") # <<>>
           THEN Append(experience_buffer, [by |-> i, action |-> Attr(i, "last_action")[1]])
           ELSE experience_buffer
    /\ instances' = [instances EXCEPT ![i] =
           Assigned(@, [last_obs |-> <<InstanceSymbol[i]>>,
                        last_action |-> <<target>>,
                        position |-> target])]
    /\ instance_last' = [op |-> "rl_bar", self |-> i]
    /\ UNCHANGED <<gate_vars, scalp_vars, sender_vars, ledger_vars, eval_vars,
                   filter_last, catalog_last, threads, predictive>>

InstanceNext ==
    \E i \in DOMAIN InstanceSymbol :
        \/ \E t \in {Tick(100, 101, 3, 2)}, now \in {10, 20} : InstanceOnTick(i, t, now)
        \/ \E price \in {100, 102}, now \in {10, 20}, enters \in BOOLEAN :
               InstanceOnBar(i, price, now, enters)
        \/ \E change \in {-1, 1} : InstanceOnTrade(i, change)
        \/ \E target \in {-1, 0, 1} : InstanceRlOnBar(i, target)

----------------------------------------------------------------------------
(* Specifications *)

Init ==
    /\ GateInit /\ ScalpInit /\ SenderInit /\ LedgerInit /\ EvalInit
    /\ FilterInit /\ CatalogInit /\ ThreadInit /\ PredInit
    /\ InstanceInit

\* the gates alone: the strategy stays in one initial state
GateOnlyInit ==
    /\ Init
    /\ instances[1].class = "scalp"
    /\ contract_to_trade = "rb2605"
    /\ variant = "hybrid"
    /\ take_profit_tick = TakeProfitDefault
SpecGate == GateOnlyInit /\ [][GateNext]_vars

\* the scalp engine alone, default tick distances: the account stays as first
\* reported
ScalpOnlyInit ==
    /\ Init
    /\ instances[1].class = "scalp"
    /\ contract_to_trade = "rb2605"
    /\ balance = 100000
    /\ take_profit_tick = TakeProfitDefault
SpecScalp == ScalpOnlyInit /\ [][ScalpNext]_vars

\* the scalp engine next to the drawdown gate, both fed by one broker
SystemInit ==
    /\ Init
    /\ instances[1].class = "scalp"
    /\ contract_to_trade = "rb2605"
    /\ balance = 100000
    /\ variant = "scalping"
    /\ take_profit_tick = TakeProfitDefault
SystemNext ==
    \/ ScalpNext
    \/ \E b \in {94000, 100000} : AccountReport(b, 0)
    \/ UpdateAccount
SpecSystem == SystemInit /\ [][SystemNext]_vars

\* CTPEngine and RLTradingStrategy
SenderOnlyInit ==
    /\ Init
    /\ instances[1].class = "scalp"
    /\ contract_to_trade = "rb2605"
    /\ balance = 100000
    /\ variant = "scalping"
    /\ take_profit_tick = TakeProfitDefault
SpecSenders == SenderOnlyInit /\ [][SenderNext]_vars

\* the position ledger
LedgerOnlyInit ==
    /\ Init
    /\ instances[1].class = "scalp"
    /\ contract_to_trade = "rb2605"
    /\ balance = 100000
    /\ variant = "scalping"
    /\ take_profit_tick = TakeProfitDefault
SpecLedger == LedgerOnlyInit /\ [][LedgerNext]_vars

\* the profitability evaluator, over every contract of the catalog
EvalOnlyInit ==
    /\ Init
    /\ instances[1].class = "scalp"
    /\ balance = 100000
    /\ variant = "scalping"
    /\ take_profit_tick = TakeProfitDefault
SpecEval == EvalOnlyInit /\ [][EvalNext]_vars

\* check_orderflow alone, over every snapshot, age and direction
SpecFilter == SystemInit /\ [][FilterNext]_vars

\* the contract catalog alone
SpecCatalog == SystemInit /\ [][CatalogNext]_vars

\* the position ledger, its fills and its valuations
SpecMark == LedgerOnlyInit /\ [][MarkNext]_vars

\* two threads, each applying one fill to the same ledger
SpecThreads == LedgerOnlyInit /\ [][ThreadNext]_vars

\* the position ledger called with arguments nobody has validated
SpecRaw == LedgerOnlyInit /\ [][RawNext]_vars

\* the scalp engine and the prices of its fills
SpecFills == ScalpOnlyInit /\ [][FillNext]_vars

\* the scalp engine and the delivery delay of its ticks
SpecStale == SystemInit /\ [][StaleNext]_vars

\* the predictive strategy alone
SpecPredictive == SystemInit /\ [][PredNext]_vars

\* two strategy instances of one class, scalp strategies or RLTradingStrategy
InstancesOnlyInit ==
    /\ Init
    /\ contract_to_trade = "rb2605"
    /\ balance = 100000
    /\ variant = "scalping"
    /\ take_profit_tick = TakeProfitDefault
SpecInstances == InstancesOnlyInit /\ [][InstanceNext]_vars

\* the position ledger under fills on two symbols and both sides
SpecFrame == LedgerOnlyInit /\ [][FrameNext]_vars

\* the scalp engine over several days
SpecDays == SystemInit /\ [][ScalpNext \/ NewDay]_vars

\* the scalp engine alone, tick distances of zero
ScalpZeroInit ==
    /\ Init
    /\ instances[1].class = "scalp"
    /\ contract_to_trade = "rb2605"
    /\ balance = 100000
    /\ take_profit_tick = 0
SpecScalpZero == ScalpZeroInit /\ [][ScalpNext]_vars

----------------------------------------------------------------------------
(* Claims about the risk gates *)

\* the loss of the current day as the account shows it: the balance captured
\* by the first observation of today minus the balance now
DayStartKnown == day_start_balance # <<>> /\ current_day = today
DayLoss == day_start_balance[1] - balance

\* Supporting fact for C1: DailyDrawdownRisk alone trips on every observation
\* whose drawdown reaches max_daily_loss, the boundary included.
DD_TripsOnLoss ==
    (gate_last.op = "update_account" /\ ~gate_last.first
        /\ DayLoss >= max_daily_loss) => ~allow_trade

\* C1: whenever an account observation of the current day shows
\* day_start_balance - balance >= max_daily_loss (equality included), the gate
\* answers false right after that observation: allow_trade of
\* DailyDrawdownRisk, check of RiskManager (position below the limit, so that
\* only the loss decides) and check_risk_controls of SmartAutoTrading.
C1_TripOnLoss ==
    /\ (gate_last.op = "update_account" /\ ~gate_last.first
            /\ DayLoss >= max_daily_loss) => ~allow_trade
    /\ (gate_last.op = "check" /\ DayStartKnown
            /\ DayLoss >= max_daily_loss) => gate_last.ret = FALSE
    /\ (gate_last.op = "check_risk_controls" /\ DayStartKnown
            /\ DayLoss >= sm_max_daily_loss) => gate_last.ret = FALSE

\* C2: once a gate is tripped it stays tripped on every later step of the
\* same calendar day whatever balance is observed; the only step that re-arms
\* DailyDrawdownRisk is an update_account whose date differs from current_day
\* (the first observation of a new day), and RiskManager is never re-armed
\* within a day.
C2_StickyTrip ==
    [][ /\ (~trading_enabled /\ trading_enabled')
              => (gate_last'.op = "update_account" /\ today # current_day)
        /\ ~rm_trading_enabled => ~rm_trading_enabled'
      ]_vars

\* C2 witness: the spec's example. Day start 100000, limit 5000: the gate was
\* tripped and an observation of the same day at 99000 has left it tripped.
C2_Witness ==
    /\ gate_last.op = "update_account"
    /\ ~gate_last.first
    /\ day_start_balance = <<100000>>
    /\ balance = 99000
    /\ ~allow_trade

\* Supporting fact for C3: DailyDrawdownRisk re-arms and re-captures the
\* day-start balance on the first observation of every new day.
DD_RolloverRearms ==
    (gate_last.op = "update_account" /\ gate_last.first)
        => (trading_enabled /\ day_start_balance = <<balance>>)

\* C3: the first observation of a new calendar day re-arms the gate whatever
\* the prior day's state: DailyDrawdownRisk has trading_enabled = TRUE and
\* day_start_balance = the observed balance after it, and the first
\* RiskManager.check of a day allows trading when neither the position limit
\* nor a loss of that day stands against it.
C3_RolloverRearms ==
    /\ (gate_last.op = "update_account" /\ gate_last.first)
           => (trading_enabled /\ day_start_balance = <<balance>>)
    /\ (gate_last.op = "check" /\ gate_last.first
            /\ Abs(gate_last.pos) < max_pos
            /\ ~MarginTrips(balance, available))
           => gate_last.ret = TRUE

----------------------------------------------------------------------------
(* Claims about the scalp engine *)

BarEmitted == last.op = "bar" /\ emitted # <<>>
EntryEmitted == BarEmitted /\ IsOpen(emitted[1])

\* pending orders of one kind, over all volumes
PendingOfKind(k) ==
    BagCardinality([o \in {x \in BagToSet(orders) : x.kind = k} |-> orders[o]])

\* C4: whenever the engine holds a Long position and the bar price satisfies
\* the take-profit or the stop-loss test, that same bar emits a sell-to-close
\* intent for the full open volume (symmetric cover for Short), in every
\* state: also inside the cooldown window and after the daily trade cap.
C4_ExitTrigger ==
    /\ (last.op = "bar" /\ pos > 0
            /\ (LongTakeProfit(last.price) \/ LongStopLoss(last.price)))
          => (emitted # <<>> /\ emitted[1].kind = "sell"
                /\ emitted[1].volume = pos)
    /\ (last.op = "bar" /\ pos < 0
            /\ (ShortTakeProfit(last.price) \/ ShortStopLoss(last.price)))
          => (emitted # <<>> /\ emitted[1].kind = "cover"
                /\ emitted[1].volume = -pos)

\* C5: once an intent has been emitted for a transition, no second intent for
\* it is emitted until a fill, cancellation or rejection of the first has been
\* observed: at most one order of each kind (buy, short, sell, cover) is
\* pending at any time.
C5_OneIntentPerTransition ==
    \A k \in {"buy", "short", "sell", "cover"} : PendingOfKind(k) <= 1

\* C7: a bar emits an opening intent only if, on that bar, the position is
\* flat, the trend signal points the intent's way, check_orderflow passes for
\* its direction, the cooldown has elapsed and trade_count is below the cap;
\* the bar then emits exactly that one intent, stamps last_trade_time and adds
\* exactly 1 to trade_count.
C7_EntryPreconditions ==
    [][ (last'.op = "bar" /\ emitted' # <<>> /\ IsOpen(emitted'[1])) =>
          LET i == emitted'[1] IN
          /\ Len(emitted') = 1
          /\ pos = 0
          /\ i.kind = "buy" =>
                /\ i.ema > 0
                /\ variant = "hybrid" => trend_direction = 1
                /\ check_orderflow("long")
          /\ i.kind = "short" =>
                /\ i.ema < 0
                /\ variant = "hybrid" => trend_direction = -1
                /\ check_orderflow("short")
          /\ since_last_trade >= cooldown_seconds
          /\ trade_count < max_trades_per_day
          /\ trade_count' = trade_count + 1
          /\ since_last_trade' = 0
      ]_vars

\* C7 witness: a bar has emitted a short entry as the second trade of the
\* day, so a cooldown after an earlier entry has run out before it.
C7_Witness ==
    /\ EntryEmitted
    /\ emitted[1].kind = "short"
    /\ trade_count = 2
    /\ since_last_trade = 0

\* Supporting fact for C8: a bar that sees a non-flat position emits no
\* opening order.
NoOpenWhileHeld ==
    (last.op = "bar" /\ pos # 0) => \A n \in DOMAIN emitted : IsClose(emitted[n])

\* C8: while the position is non-flat no opening order is emitted, and from
\* Long a Short position is reached only after a later bar that saw pos = 0
\* and passed the entry gates again (symmetrically from Short).
C8_NoReversal ==
    [][ /\ (last'.op = "bar" /\ pos # 0)
              => \A n \in DOMAIN emitted' : IsClose(emitted'[n])
        /\ (pos >= 0 /\ pos' < 0) => held # "long"
        /\ (pos <= 0 /\ pos' > 0) => held # "short"
      ]_vars

\* C9: when both the take-profit test and the stop-loss test hold for the open
\* position on one bar, the exit that bar emits is the stop-loss exit.
C9_StopLossFirst ==
    /\ (BarEmitted /\ pos > 0
            /\ LongTakeProfit(last.price) /\ LongStopLoss(last.price))
          => emitted[1].why = "stop_loss"
    /\ (BarEmitted /\ pos < 0
            /\ ShortTakeProfit(last.price) /\ ShortStopLoss(last.price))
          => emitted[1].why = "stop_loss"

\* C6: the engine emits no opening intent on a bar where the Daily Risk Gate
\* disallows trading (gate tripped, or position limit reached) or where the
\* Profitability Evaluator rejects the trade. Stated for the gate: a step of
\* the engine (one that leaves the gate as it is) whose bar emits an opening
\* intent is taken with DailyDrawdownRisk allowing trades and the position
\* below max_pos.
C6_EntryGated ==
    [][ (UNCHANGED gate_vars /\ last'.op = "bar" /\ emitted' # <<>>
            /\ IsOpen(emitted'[1]))
          => (allow_trade /\ Abs(pos) < max_pos) ]_vars

----------------------------------------------------------------------------
(* Claims about the order senders *)

\* C10: a tracked position changes only when a fill or another terminal
\* acknowledgment is observed; a step that only sends orders leaves it as it
\* was.
C10_PositionFollowsFills ==
    [][ (ctp_position' # ctp_position \/ rl_position' # rl_position)
            => sender_last'.op \in Acknowledgments ]_vars

----------------------------------------------------------------------------
(* Claims about the position ledger *)

\* a ledger call has just been made with the given offset flag and returned
FillStep(flag) == ledger_ops' = ledger_ops + 1 /\ ledger_last'.op = flag
                      /\ ledger_last'.ret = "ok"

\* C11: after any sequence of same-side opening fills on one key, the entry's
\* volume is the sum of the fill volumes and its price is the volume-weighted
\* mean of the fill prices.
C11_AveragePrice ==
    \A key \in DOMAIN opened :
        opened[key].volume > 0 =>
            /\ key \in DOMAIN positions
            /\ positions[key].volume = opened[key].volume
            /\ positions[key].price = Frac(opened[key].cost, opened[key].volume)

\* C11 witness: 2 lots at 4000 and 3 lots at 4010 on one key have been
\* opened; the entry shows 5 lots at 4006.
C11_Witness ==
    /\ ledger_last.op = "open"
    /\ ledger_last.key \in DOMAIN opened
    /\ opened[ledger_last.key] = [volume |-> 5, cost |-> 2 * 4000 + 3 * 4010]
    /\ positions[ledger_last.key].volume = 5
    /\ positions[ledger_last.key].price = Num(4006)

\* C12: once a position has been opened and fully closed, its entry is gone
\* and the balance has changed by exactly the realized PnL minus the
\* commissions charged.
C12_RoundTripCash ==
    (ledger_last.op = "close" /\ ledger_last.closed > 0
        /\ ledger_last.key \notin DOMAIN positions)
      => acct_balance = cash_due

\* C13: every entry of the position map has a volume above 0.
C13_PositionVolumesPositive ==
    \A key \in DOMAIN positions : positions[key].volume > 0

\* C14: a closing fill larger than the open volume of its key closes exactly
\* the open volume, removing the entry, and signals OverClose to the caller.
C14_OverCloseClamped ==
    [][ (FillStep("close") /\ ledger_last'.key \in DOMAIN positions
            /\ positions[ledger_last'.key].volume < ledger_last'.volume)
          => (ledger_last'.key \notin DOMAIN positions'
                /\ ledger_last'.ret = "OverClose") ]_vars

\* C15: in every ledger state available = balance - margin.
C15_FundsInvariant ==
    acct_available = FSub(acct_balance, acct_margin)

\* the margin the symbol's ContractSpec asks for a fill:
\* price * lot size * volume * margin ratio
SpecMargin(volume, price) ==
    Frac(price * LedgerLotSize * volume * LedgerMarginPercent, 100)

\* C16: an opening fill raises the margin and lowers available by
\* price * lot_size * volume * margin_ratio of the symbol's ContractSpec, and
\* a closing fill moves both back by the same expression.
C16_MarginSymmetry ==
    [][ /\ FillStep("open") =>
              LET m == SpecMargin(ledger_last'.volume, ledger_last'.price) IN
              /\ acct_margin' = FAdd(acct_margin, m)
              /\ acct_available' = FSub(acct_available, m)
        /\ FillStep("close") =>
              LET m == SpecMargin(ledger_last'.volume, ledger_last'.price) IN
              /\ acct_margin' = FSub(acct_margin, m)
              /\ acct_available' = FAdd(acct_available, m)
      ]_vars

C18_SnapshotRoundTrip ==
    LET f == SavedFile(Ledger) IN
    /\ f.kind = "snapshot"
    /\ ToDict(LoadedLedger(f.data[1])) = ToDict(Ledger)

----------------------------------------------------------------------------
(* Claims about the profitability evaluator *)

\* the expected exit price of the last call: entry * (1 + r) for a long
\* trade, entry * (1 - r) for a short one
LastExitPrice ==
    IF eval_last.direction = "LONG"
    THEN FMul(eval_last.price, FAdd(Num(1), eval_last.expected_return))
    ELSE FMul(eval_last.price, FSub(Num(1), eval_last.expected_return))

ResolvedCommission(field, price, volume) ==
    IF FLess(Num(1), field)
    THEN FMul(field, Num(volume))
    ELSE FMul(FMul(FMul(price, Num(contract_spec.size)), Num(volume)), field)

----------------------------------------------------------------------------
(* Order-flow filter *)

\* the spread of a snapshot is within the limit
SpreadWithinLimit(tick) ==
    tick.ask_price_1 - tick.bid_price_1 <= max_spread_tick * pricetick

\* the resting volumes lean the way of the direction by the imbalance ratio
ImbalanceFavours(tick, direction) ==
    IF direction = "long"
    THEN tick.bid_volume_1 * order_imbalance_den
           >= tick.ask_volume_1 * order_imbalance_num
    ELSE tick.ask_volume_1 * order_imbalance_den
           >= tick.bid_volume_1 * order_imbalance_num

\* C21: check_orderflow passes exactly when the spread is at most
\* max_spread_tick price ticks, the volumes lean the direction's way by the
\* imbalance ratio (bid over ask for long, ask over bid for short) and the
\* snapshot is there and at most two seconds old; the result depends on the
\* snapshot, its age and the direction alone, so a spread above the limit is
\* rejected for both directions and every volume pair.
C21_FilterDecision ==
    filter_last.op = "check_orderflow" =>
        LET t == filter_last.tick IN
        /\ filter_last.ret =
               (/\ t # <<>>
                /\ SpreadWithinLimit(t[1])
                /\ ImbalanceFavours(t[1], filter_last.direction)
                /\ filter_last.age <= FreshnessWindow)
        /\ (t # <<>> /\ ~SpreadWithinLimit(t[1])) => filter_last.ret = FALSE

\* bid 3999 and ask 4003 with volumes and age that favour a long entry: the
\* spread of four ticks alone rejects it
C21_Witness ==
    /\ filter_last.op = "check_orderflow"
    /\ filter_last.tick = <<Tick(3999, 4003, 4, 2)>>
    /\ filter_last.direction = "long"
    /\ filter_last.age = 0
    /\ filter_last.ret = FALSE

----------------------------------------------------------------------------
(* Position limit of the gates *)

\* the position limit the gate of the last call works with
PositionLimit ==
    IF gate_last.op = "check_risk_controls" THEN sm_max_pos ELSE max_pos

\* Supporting fact for C22: RiskManager.check answers false at the position
\* limit, whether it is enabled or not, and such a call changes no gate.
RM_PositionLimit ==
    [][ (gate_last'.op = "check" /\ Abs(gate_last'.pos) >= max_pos)
          => (/\ gate_last'.ret = FALSE
              /\ UNCHANGED <<trading_enabled, day_start_balance,
                             rm_trading_enabled, sm_trading_enabled>>) ]_vars

\* C22: a gate asked about a position with |position| >= max_position answers
\* false, armed or tripped, and the call leaves trading_enabled and
\* day_start_balance as they were: allow_trade of DailyDrawdownRisk, check of
\* RiskManager and check_risk_controls of SmartAutoTrading.
C22_PositionLimit ==
    [][ (/\ gate_last'.op \in {"allow_trade", "check", "check_risk_controls"}
         /\ Abs(gate_last'.pos) >= PositionLimit')
          => (/\ gate_last'.ret = FALSE
              /\ UNCHANGED <<trading_enabled, day_start_balance,
                             rm_trading_enabled, sm_trading_enabled>>) ]_vars

----------------------------------------------------------------------------
(* Contract catalog *)

\* number of leading characters two symbols have in common
SharedPrefixLen(a, b) ==
    LET same == {n \in 0..Min(Len(a), Len(b)) : SubSeq(a, 1, n) = SubSeq(b, 1, n)}
    IN  CHOOSE n \in same : \A m \in same : m <= n

\* the longest prefix the symbol shares with any table key
BestSharedPrefix(symbol) ==
    LET lens == {SharedPrefixLen(Spelling[k], symbol) : k \in DOMAIN Spelling}
    IN  CHOOSE n \in lens : \A m \in lens : m <= n

\* C23: get_contract_spec answers every symbol string, and a symbol that has
\* nothing in common with any table key gets a default whose margin ratio is
\* at least that of every table entry and whose opening and closing
\* commissions are above zero.
C23_CatalogDefault ==
    (catalog_last.op = "get_contract_spec"
        /\ BestSharedPrefix(catalog_last.symbol) = 0)
    => /\ \A k \in DOMAIN CONTRACT_SPECS :
            FLeq(CONTRACT_SPECS[k].margin_ratio, catalog_last.ret.margin_ratio)
       /\ FLess(Num(0), catalog_last.ret.commission_open)
       /\ FLess(Num(0), catalog_last.ret.commission_close)

\* C24: get_contract_spec returns the entry of the table key that shares the
\* longest prefix with the symbol: a table key gets its own entry, and a
\* symbol that shares no prefix with any key gets the default.
C24_CatalogLookup ==
    catalog_last.op = "get_contract_spec" =>
        LET symbol == catalog_last.symbol
            best   == BestSharedPrefix(symbol)
        IN  /\ best > 0 =>
                  \E k \in DOMAIN Spelling :
                      /\ SharedPrefixLen(Spelling[k], symbol) = best
                      /\ catalog_last.ret = CONTRACT_SPECS[k]
            /\ \A k \in DOMAIN Spelling :
                  symbol = Spelling[k] => catalog_last.ret = CONTRACT_SPECS[k]
            /\ best = 0 => catalog_last.ret = CatalogDefault

\* Supporting fact for C24: every table key is mapped to its own entry, and so
\* is every symbol that has the first two characters of a key.
Catalog_TwoCharacterMatch ==
    catalog_last.op = "get_contract_spec" =>
        \A k \in DOMAIN Spelling :
            (Len(catalog_last.symbol) >= 2
                /\ Slice(catalog_last.symbol, 2) = Slice(Spelling[k], 2))
            => catalog_last.ret = CONTRACT_SPECS[k]

----------------------------------------------------------------------------
(* Unrealized PnL *)

\* +1 for a long position, -1 for a short one
SideSign(direction) == IF direction = "LONG" THEN 1 ELSE -1

\* (mark_price - entry_price) * sign * lot_size * volume of the position under
\* key, 0 without one
SpecUnrealizedPnl(key, mark_price) ==
    IF key \in DOMAIN positions
    THEN FMul(FSub(Num(mark_price), positions[key].price),
              Num(SideSign(key[2]) * LedgerLotSize * positions[key].volume))
    ELSE Num(0)

\* C25: the unrealized PnL the ledger reports for a position at a mark price
\* is (mark price - entry price) * sign of the side * lot size * volume, and
\* 0 when there is no such position.
C25_UnrealizedPnl ==
    ledger_last.op = "calculate_position_pnl" =>
        ledger_last.value = SpecUnrealizedPnl(ledger_last.key, ledger_last.price)

\* Supporting fact for C25: the reported value is the price difference times
\* the volume, signed by the side, and it is the value kept in the entry.
Pnl_PerUnit ==
    (ledger_last.op = "calculate_position_pnl"
        /\ ledger_last.key \in DOMAIN positions)
    => /\ FMul(ledger_last.value, Num(LedgerLotSize))
            = SpecUnrealizedPnl(ledger_last.key, ledger_last.price)
       /\ positions[ledger_last.key].pnl = ledger_last.value

----------------------------------------------------------------------------
(* Concurrent fills *)

\* the ledger fields a fill touches
TouchedLedger ==
    [margin |-> acct_margin, available |-> acct_available,
     commission |-> acct_commission, positions |-> positions,
     trade_records |-> trade_records]

\* the touched fields after construction
FreshLedger ==
    [margin |-> Num(0), available |-> Num(100000), commission |-> Num(0),
     positions |-> <<>>, trade_records |-> 0]

\* the fill of thread t applied in one piece to the fields l; the key of the
\* fill has no entry in l, an opening fill creates it and a closing fill
\* finds nothing to reduce
FillApplied(l, t) ==
    LET f   == threads[t]
        key == PositionKey(ThreadSymbol[t], "LONG")
        m   == MarginMoved(f.volume, f.price)
    IN  [margin |-> IF f.offset_flag = "open" THEN FAdd(l.margin, m)
                    ELSE FSub(l.margin, m),
         available |->
             FSub(IF f.offset_flag = "open" THEN FSub(l.available, m)
                  ELSE FAdd(l.available, m), Num(f.commission)),
         commission |-> FAdd(l.commission, Num(f.commission)),
         positions |-> IF f.offset_flag = "open"
                       THEN (key :> Position(f.volume, Num(f.price))) @@ l.positions
                       ELSE l.positions,
         trade_records |-> l.trade_records + 1]

\* C26: once two threads have each applied a fill on a different symbol, in
\* whatever interleaving, margin, available, commission, the position map and
\* the trade log are what one of the two serial orders of the fills gives.
C26_AtomicFills ==
    (\A t \in DOMAIN ThreadSymbol : threads[t].pc = "done") =>
        \/ TouchedLedger = FillApplied(FillApplied(FreshLedger, 1), 2)
        \/ TouchedLedger = FillApplied(FillApplied(FreshLedger, 2), 1)

\* Supporting fact for C26: a fill applied while no other thread is inside the
\* ledger gives the serial result.
Threads_AloneIsSerial ==
    (threads[1].pc = "done" /\ threads[2].pc = "idle") =>
        TouchedLedger = FillApplied(FreshLedger, 1)

\* Supporting fact for C26: the position map and the trade log never lose
\* an update.
Threads_MapAndLogKept ==
    (\A t \in DOMAIN ThreadSymbol : threads[t].pc = "done") =>
        /\ positions = FillApplied(FillApplied(FreshLedger, 1), 2).positions
        /\ trade_records = 2

----------------------------------------------------------------------------
(* Arguments a fill cannot have *)

\* C27: a ledger call with a negative volume or a price of zero or less ends
\* in an error and leaves positions, margin, available, balance, commission
\* and the trade log as they were.
C27_PreconditionsAbort ==
    [][ (/\ ledger_ops' = ledger_ops + 1
         /\ ledger_last'.op \in {"open", "close", "record_trade_of"}
         /\ (ledger_last'.volume < 0 \/ ledger_last'.price <= 0))
          => (/\ ledger_last'.ret # "ok"
              /\ UNCHANGED <<positions, acct_margin, acct_available,
                             acct_balance, acct_commission, trade_records>>) ]_vars

----------------------------------------------------------------------------
(* Closing what is not open *)

\* C28: a closing fill on a key with no open volume fails with
\* UnknownPosition and leaves the position map, margin and available as they
\* were; no other call fails with UnknownPosition.
C28_UnknownPosition ==
    [][ /\ (/\ ledger_ops' = ledger_ops + 1
            /\ ledger_last'.op = "close"
            /\ (ledger_last'.key \notin DOMAIN positions
                    \/ positions[ledger_last'.key].volume = 0))
             => (/\ ledger_last'.ret = "UnknownPosition"
                 /\ UNCHANGED <<positions, acct_margin, acct_available>>)
        /\ (ledger_ops' = ledger_ops + 1
                /\ ledger_last'.ret = "UnknownPosition")
             => (/\ ledger_last'.op = "close"
                 /\ (ledger_last'.key \notin DOMAIN positions
                        \/ positions[ledger_last'.key].volume = 0)) ]_vars

\* Supporting fact for C28: a closing fill on a key without an entry does
\* leave the position map as it was.
Close_UnknownKeepsMap ==
    [][ (ledger_ops' = ledger_ops + 1 /\ ledger_last'.op = "close"
            /\ ledger_last'.key \notin DOMAIN positions)
          => UNCHANGED positions ]_vars

----------------------------------------------------------------------------
(* Day boundary and entry price of the scalp engine *)

\* C29: the first bar a strategy processes on a new trading day finds
\* trade_count at 0, so a day that reached max_trades_per_day does not block
\* the entries and exits of the next day.
C29_DailyTradeCountReset ==
    [][ (last'.op = "bar" /\ last'.bar_day # last.bar_day)
          => trade_count = 0 ]_vars

\* Supporting fact for C29: trade_count never goes down.
TradeCount_NeverReset ==
    [][ trade_count' >= trade_count ]_vars

\* C30: once the fill of an entry order is confirmed, entry_price, which the
\* take-profit and stop-loss comparisons use, is the price of that fill.
C30_EntryPriceIsFillPrice ==
    [][ (/\ last'.op = "trade"
         /\ \E o \in BagToSet(orders) :
                IsOpen(o) /\ orders' = orders (-) SetToBag({o}))
          => entry_price' = last'.price ]_vars

\* Supporting fact for C30: a fill never changes entry_price.
Fill_KeepsEntryPrice ==
    [][ last'.op = "trade" /\ orders' # orders => entry_price' = entry_price ]_vars

----------------------------------------------------------------------------
(* Claims about the age of the book *)

\* C31: no entry intent is emitted from a book that was taken more than the
\* freshness window before the bar that evaluates it, however tick and bar
\* callbacks interleave
C31_StalenessVeto ==
    (last.op = "bar" /\ EntryEmitted) => book_age <= FreshnessWindow

\* what the code does guarantee: no entry intent is emitted more than the
\* freshness window after on_tick last ran
Stale_ReceiptWithinWindow ==
    (last.op = "bar" /\ EntryEmitted) => tick_age <= FreshnessWindow

----------------------------------------------------------------------------
(* Claims about the number of intents of one update *)

\* C32: one market update handled by on_1min_bar, on_bar or
\* execute_trading_logic with its trailing stop emits at most one order
\* intent
C32_OneIntentPerUpdate ==
    Len(emitted) <= 1 /\ Len(predictive.emitted) <= 1

\* what the code does guarantee: a bar of either scalp strategy emits at most
\* one intent
Scalp_OneIntentPerBar == Len(emitted) <= 1

\* one update of the predictive strategy emits at most three intents
Pred_AtMostThreeIntents == Len(predictive.emitted) <= 3

----------------------------------------------------------------------------
(* Claims about two strategy instances *)

\* what instance j can read: its own attributes, those of its class and,
\* for RLTradingStrategy, the experience list of the module
Readable(j) ==
    IF instances[j].class = "rl" THEN <<instances[j], experience_buffer>>
    ELSE <<instances[j]>>

\* C33: a tick, bar or fill of one instance changes nothing of the other
\* instance, neither its attributes nor any structure it can read
C33_CrossSymbolIndependence ==
    [][\A j \in DOMAIN InstanceSymbol :
          (instance_last'.op # "init" /\ instance_last'.self # j)
              => Readable(j)' = Readable(j)]_vars

\* what the code does guarantee: a tick, bar or fill of one instance leaves
\* the attributes of the other instance as they are
Instances_OwnAttributesKept ==
    [][\A j \in DOMAIN InstanceSymbol :
          (instance_last'.op # "init" /\ instance_last'.self # j)
              => instances'[j] = instances[j]]_vars

----------------------------------------------------------------------------
(* Claims about what trips a gate *)

\* what the code does guarantee: DailyDrawdownRisk is tripped only by an
\* update_account that is neither the first ever nor the first of a new day
\* and that sees day_start_balance - balance >= max_daily_loss
DD_NoSpuriousTrip ==
    [][(trading_enabled /\ ~trading_enabled')
          => /\ gate_last'.op = "update_account"
             /\ ~gate_last'.first
             /\ day_start_balance' = day_start_balance
             /\ DayLoss >= max_daily_loss]_vars

\* C34: a gate goes from armed to tripped only on an observation that shows
\* day_start_balance - balance >= max_daily_loss; the first observation ever
\* and the first observation of a new day never trip it. DailyDrawdownRisk
\* observes in update_account, RiskManager in check.
C34_NoSpuriousTrip ==
    [][ /\ (trading_enabled /\ ~trading_enabled')
              => /\ gate_last'.op = "update_account"
                 /\ ~gate_last'.first
                 /\ day_start_balance' = day_start_balance
                 /\ DayLoss >= max_daily_loss
        /\ (rm_trading_enabled /\ ~rm_trading_enabled')
              => /\ gate_last'.op = "check"
                 /\ ~gate_last'.first
                 /\ DayStartKnown
                 /\ DayLoss >= max_daily_loss
      ]_vars

----------------------------------------------------------------------------
(* Claims about the margin of the ledger *)

\* C35: after any sequence of opening and closing fills the margin of the
\* ledger is not negative, and it is 0 whenever the position map is empty
C35_MarginBounds ==
    /\ FLeq(Num(0), acct_margin)
    /\ DOMAIN positions = {} => acct_margin = Num(0)

\* what the code does guarantee: every closing fill takes price * volume *
\* 0.1 off the margin, whether or not it closed anything
Margin_CloseAlwaysReleases ==
    [][FillStep("close")
          => acct_margin' = FSub(acct_margin,
                                 MarginMoved(ledger_last'.volume,
                                             ledger_last'.price))]_vars

----------------------------------------------------------------------------
(* Claims about the trade cap *)

\* C36: trade_count never exceeds max_trades_per_day, and trade_count,
\* last_trade_time and entry_price change only on a bar that emits an entry
\* intent (last_trade_time is read through since_last_trade, which the
\* passing of time alone moves as well)
C36_TradeCapInvariant ==
    /\ [](trade_count <= max_trades_per_day)
    /\ [][ (\/ trade_count' # trade_count
            \/ entry_price' # entry_price
            \/ last'.op # "elapse" /\ since_last_trade' # since_last_trade)
          => /\ last'.op = "bar"
             /\ emitted' # <<>>
             /\ IsOpen(emitted'[1])
             /\ trade_count' = trade_count + 1 ]_vars

\* C36 witness: a bar has emitted the entry that brings trade_count to the
\* cap
C36_Witness ==
    /\ EntryEmitted
    /\ trade_count = max_trades_per_day
    /\ since_last_trade = 0

----------------------------------------------------------------------------
(* Claims about what a fill leaves alone *)

\* the volume of the entry of key k in the map m, 0 when there is none
VolumeOf(m, k) == IF k \in DOMAIN m THEN m[k].volume ELSE 0

\* C37: a closing fill of 0 < volume <= open volume takes exactly its volume
\* off the entry of its (symbol, side) and leaves the average price of what
\* remains as it was; no fill changes the entry of the opposite side of its
\* symbol or of any other symbol
C37_PartialCloseFrame ==
    [][ (ledger_ops' = ledger_ops + 1 /\ ledger_last'.op \in OffsetFlags) =>
          LET key    == ledger_last'.key
              volume == ledger_last'.volume
          IN  /\ (ledger_last'.op = "close" /\ 0 < volume
                    /\ volume <= VolumeOf(positions, key))
                   => /\ VolumeOf(positions', key)
                            = VolumeOf(positions, key) - volume
                      /\ key \in DOMAIN positions'
                            => positions'[key].price = positions[key].price
              /\ DOMAIN positions' \ {key} = DOMAIN positions \ {key}
              /\ \A k \in DOMAIN positions \ {key} :
                     positions'[k] = positions[k]
      ]_vars

\* C37 witness: 1 lot of a 2-lot entry opened at 4010 has been closed at
\* 4000 while the opposite side of the symbol and another symbol have entries
C37_Witness ==
    /\ ledger_last.op = "close"
    /\ ledger_last.closed = 1
    /\ ledger_last.price = 4000
    /\ ledger_last.key = PositionKey("rb2605", "LONG")
    /\ ledger_last.key \in DOMAIN positions
    /\ positions[ledger_last.key].volume = 1
    /\ positions[ledger_last.key].price = Num(4010)
    /\ DOMAIN positions \ {ledger_last.key} # {}

----------------------------------------------------------------------------
(* Claims about the two directions of the filter *)

OtherDirection(direction) == IF direction = "long" THEN "short" ELSE "long"

\* C38: with order_imbalance_ratio > 1, a snapshot whose best-bid or
\* best-ask volume is positive never passes check_orderflow for both "long"
\* and "short"
C38_DirectionExclusive ==
    (/\ filter_last.op = "check_orderflow"
     /\ filter_last.tick # <<>>
     /\ order_imbalance_num > order_imbalance_den
     /\ \/ filter_last.tick[1].bid_volume_1 > 0
        \/ filter_last.tick[1].ask_volume_1 > 0
     /\ filter_last.ret)
        => ~CheckOrderflow(filter_last.tick, filter_last.age,
                           OtherDirection(filter_last.direction))

\* C38 witness: a fresh book of one tick spread with 3 lots bid and 2 asked
\* has passed for "long"
C38_Witness ==
    /\ filter_last.op = "check_orderflow"
    /\ filter_last.tick = <<Tick(4000, 4001, 3, 2)>>
    /\ filter_last.age = 0
    /\ filter_last.direction = "long"
    /\ filter_last.ret

----------------------------------------------------------------------------
(* Claims about trades without an edge *)

====
